---- MODULE Spec2Model ----
(***************************************************************************)
(* A model of sq: the shorthand query parser (query.rs), the keyword       *)
(* matching and ranking of alg.rs, the usage scores (alg.rs, schema.rs)    *)
(* and the name resolver of main.rs.                                       *)
(*                                                                         *)
(* Strings are sequences of one-character strings.  An Option<T> is a      *)
(* sequence of length 0 (None) or 1 (Some).  An f64 that the program can   *)
(* reach from the pools below is the dyadic number m * 2^e, kept as the    *)
(* record [m |-> m, e |-> e] with m odd (or m = 0, e = 0); NaN is not in   *)
(* any pool.                                                               *)
(***************************************************************************)
EXTENDS Integers, Sequences, FiniteSets, TLC

VARIABLES
    items,      \* alg.rs: the candidates handed to find_best_mut, in order
    pat,        \* alg.rs: the name searched for
    best,       \* alg.rs: Option<index into items>, the result of find_best_mut
    apc,        \* alg.rs: "ready" before the call, "found" after it
    slot,       \* alg.rs: the Option<Score> handed to update_score
    now,        \* the system clock, in seconds since the epoch
    hits,       \* the number of update_score calls so far
    lasthit,    \* Option<[before, at]>: the score before the last call, and its time
    objects,        \* main.rs: Schema.objects, in allocation order (ObjectId = index)
    object_scores,  \* main.rs: Schema.object_scores, ObjectId -> Option<Score>
    query,          \* main.rs: Option<ObjectTree<String>>, the tree last resolved
    result,         \* main.rs: Option<[tree, err, msg]>, what resolve_names returned
                    \* for it, with the error as Display renders it
    hitlog,         \* the nodes the last resolve_names bound, in order:
                    \* [path, name, id, before, after, at, seen, left], seen the
                    \* score table the closure was called with, left the table
                    \* it left
    nq,             \* the number of resolve_names calls so far
    given,          \* main.rs: Option<Query<String, String>>, the query last handed
                    \* to Query::resolve_names
    resolved,       \* main.rs: Option<Query<ObjectId, ColumnId>>, what it returned
    src,        \* query.rs: the text handed to parse
    parsed,     \* query.rs: Option<the result of parse(src)>
    text,       \* query.rs: Option<the to_string() of the parsed query>
    reparsed,   \* query.rs: Option<the result of parse(text)>
    lsrc,       \* query.rs: the text handed to parse_literal
    lit,        \* query.rs: Option<the ParseResult of parse_literal(lsrc)>
    ssrc,       \* syntax.rs: the text handed to parse_object_tree
    stree,      \* syntax.rs: Option<the ParseResult of parse_object_tree(ssrc)>
    kname,      \* alg.rs: the string an AsciiKeywords iterates over, and the name
                \* of the value handed to match_named_value
    kpat,       \* alg.rs: the pattern handed to match_named_value
    kindex,     \* alg.rs: AsciiKeywords.index
    kout,       \* alg.rs: the keywords next() has yielded so far
    kdone,      \* alg.rs: next() has returned None
    kmatch,     \* alg.rs: Option<what match_named_value returned: Option<kind>>
    arena_objects,  \* arena.rs: PersistedArena.objects
    allocs,         \* arena.rs: [id, object] of every alloc so far, in order
    got,            \* arena.rs: Option<[id, object, issuer]>, the last get, what
                    \* it returned and who issued the id: "self", "other", "none"
    iterated,       \* arena.rs: Option<what iter() yielded, collected>
    other_objects,  \* arena.rs: the objects of a second PersistedArena<T>
    other_allocs    \* arena.rs: [id, object] of every alloc of the second arena

algVars == <<items, pat, best, apc>>

scoreVars == <<slot, now, hits, lasthit>>

resVars == <<objects, object_scores, query, result, hitlog, nq, given, resolved>>

parseVars == <<src, parsed, text, reparsed, lsrc, lit, ssrc, stree>>

kwVars == <<kname, kpat, kindex, kout, kdone, kmatch>>

arenaVars == <<arena_objects, allocs, got, iterated, other_objects, other_allocs>>

vars == <<items, pat, best, apc, slot, now, hits, lasthit,
          objects, object_scores, query, result, hitlog, nq, given, resolved,
          src, parsed, text, reparsed, lsrc, lit, ssrc, stree,
          kname, kpat, kindex, kout, kdone, kmatch,
          arena_objects, allocs, got, iterated, other_objects, other_allocs>>

\* What an action of one component leaves alone: the other components' state.
notAlgVars == <<scoreVars, resVars, parseVars, kwVars, arenaVars>>

notScoreVars == <<algVars, resVars, parseVars, kwVars, arenaVars>>

\* The resolver reads the clock too.
notResVars == <<algVars, slot, hits, lasthit, parseVars, kwVars, arenaVars>>

notParseVars == <<algVars, scoreVars, resVars, kwVars, arenaVars>>

notKwVars == <<algVars, scoreVars, resVars, parseVars, arenaVars>>

notArenaVars == <<algVars, scoreVars, resVars, parseVars, kwVars>>

----------------------------------------------------------------------------
(* Option<T> *)

None == <<>>

Some(x) == <<x>>

IsSome(o) == o /= <<>>

Unwrap(o) == o[1]

----------------------------------------------------------------------------
(* Characters *)

LowerLetters ==
    {"a", "b", "c", "d", "e", "f", "g", "h", "i", "j", "k", "l", "m",
     "n", "o", "p", "q", "r", "s", "t", "u", "v", "w", "x", "y", "z"}

UpperToLower ==
    [A |-> "a", B |-> "b", C |-> "c", D |-> "d", E |-> "e", F |-> "f",
     G |-> "g", H |-> "h", I |-> "i", J |-> "j", K |-> "k", L |-> "l",
     M |-> "m", N |-> "n", O |-> "o", P |-> "p", Q |-> "q", R |-> "r",
     S |-> "s", T |-> "t", U |-> "u", V |-> "v", W |-> "w", X |-> "x",
     Y |-> "y", Z |-> "z"]

UpperLetters == DOMAIN UpperToLower

Digits == {"0", "1", "2", "3", "4", "5", "6", "7", "8", "9"}

is_ascii_alphabetic(c) == c \in LowerLetters \cup UpperLetters

is_ascii_digit(c) == c \in Digits

is_ascii_alphanumeric(c) == is_ascii_alphabetic(c) \/ is_ascii_digit(c)

to_ascii_lowercase_char(c) == IF c \in UpperLetters THEN UpperToLower[c] ELSE c

to_ascii_lowercase(s) == [i \in 1..Len(s) |-> to_ascii_lowercase_char(s[i])]

starts_with(s, p) == Len(p) <= Len(s) /\ SubSeq(s, 1, Len(p)) = p

----------------------------------------------------------------------------
(* f64 values m * 2^e *)

RECURSIVE Pow2(_)
Pow2(n) == IF n <= 0 THEN 1 ELSE 2 * Pow2(n - 1)

F64(m, e) == [m |-> m, e |-> e]

\* The integer a.m * 2^(a.e - lo), for lo <= a.e.
Scaled(a, lo) == a.m * Pow2(a.e - lo)

MinExp(a, b) == IF a.e <= b.e THEN a.e ELSE b.e

\* f64::partial_cmp: an Option<Ordering>, None only for NaN.
f64_partial_cmp(a, b) ==
    LET lo == MinExp(a, b)
        x == Scaled(a, lo)
        y == Scaled(b, lo)
    IN  Some(IF x < y THEN "Less" ELSE IF x = y THEN "Equal" ELSE "Greater")

reverse(o) == IF o = "Less" THEN "Greater" ELSE IF o = "Greater" THEN "Less" ELSE o

\* The number of binary digits of m >= 1.
RECURSIVE BitLen(_)
BitLen(m) == IF m < 2 THEN 1 ELSE 1 + BitLen(m \div 2)

\* f64::INFINITY: what a product of 2^1024 or more rounds to.
INFINITY == F64(1, 1024)

\* f64::is_finite: the value is below 2^1024.
is_finite(v) == v.m = 0 \/ BitLen(v.m) + v.e <= 1024

\* v * 2^k as f64 computes it: exact below 2^1024, INFINITY from there on
\* and for an infinite v.
MulPow2(v, k) ==
    IF v.m = 0 THEN v
    ELSE IF ~is_finite(F64(v.m, v.e + k)) \/ ~is_finite(v) THEN INFINITY
    ELSE F64(v.m, v.e + k)

----------------------------------------------------------------------------
(* alg.rs: keywords *)

\* The first index j >= i with j > Len(s) or ~Keep(s[j]).
RECURSIVE SkipAlphabetic(_, _)
SkipAlphabetic(s, i) ==
    IF i <= Len(s) /\ is_ascii_alphabetic(s[i]) THEN SkipAlphabetic(s, i + 1) ELSE i

RECURSIVE SkipDigit(_, _)
SkipDigit(s, i) ==
    IF i <= Len(s) /\ is_ascii_digit(s[i]) THEN SkipDigit(s, i + 1) ELSE i

RECURSIVE SkipNonAlphanumeric(_, _)
SkipNonAlphanumeric(s, i) ==
    IF i <= Len(s) /\ ~is_ascii_alphanumeric(s[i]) THEN SkipNonAlphanumeric(s, i + 1) ELSE i

\* AsciiKeywords::next, iterated from position index (1-based) to the end:
\* the keywords the iterator yields.  An empty run ends the iteration.
RECURSIVE AsciiKeywordsFrom(_, _)
AsciiKeywordsFrom(s, index) ==
    IF index > Len(s) THEN <<>>
    ELSE LET start == index
             stop == IF is_ascii_alphabetic(s[start]) THEN SkipAlphabetic(s, start)
                     ELSE IF is_ascii_digit(s[start]) THEN SkipDigit(s, start)
                     ELSE start
             keyword == SubSeq(s, start, stop - 1)
         IN  IF keyword = <<>> THEN <<>>
             ELSE <<keyword>> \o AsciiKeywordsFrom(s, SkipNonAlphanumeric(s, stop))

ascii_keywords(s) == AsciiKeywordsFrom(s, 1)

----------------------------------------------------------------------------
(* alg.rs: matching and ranking.  An item is [name, score]; a Match<&mut T> *)
(* is [kind |-> "Exact" | "Prefix", v |-> the item's index in items].       *)

Value(name, score) == [name |-> name, score |-> score]

Score(value, timestamp) == [value |-> value, timestamp |-> timestamp]

Match(kind, v) == [kind |-> kind, v |-> v]

\* Match::match_named_value: an Option<Match>.
match_named_value(p, its, i) ==
    LET name == its[i].name
        kws == ascii_keywords(name)
        is_match == \E n \in 1..Len(kws) :
                        starts_with(to_ascii_lowercase(kws[n]), to_ascii_lowercase(p))
    IN  IF name = p THEN Some(Match("Exact", i))
        ELSE IF is_match THEN Some(Match("Prefix", i))
        ELSE None

\* A bug of alg_Score_partial_cmp: the order of the values, not reversed.
alg_Score_partial_cmp_unreversed(a, b) == f64_partial_cmp(a.value, b.value)

\* impl PartialOrd for Score (alg.rs): the order of the values, reversed.
alg_Score_partial_cmp(a, b) ==
    LET c == f64_partial_cmp(a.value, b.value)
    IN  IF IsSome(c) THEN Some(reverse(Unwrap(c))) ELSE None

\* Option<Score>::partial_cmp over alg.rs's Score: None is less than Some.
alg_OptionScore_partial_cmp(a, b) ==
    IF ~IsSome(a) /\ ~IsSome(b) THEN Some("Equal")
    ELSE IF ~IsSome(a) THEN Some("Less")
    ELSE IF ~IsSome(b) THEN Some("Greater")
    ELSE alg_Score_partial_cmp(Unwrap(a), Unwrap(b))

compare_matches(its, a, b) ==
    LET c == alg_OptionScore_partial_cmp(its[a.v].score, its[b.v].score)
    IN  IF IsSome(c) THEN Unwrap(c) ELSE "Greater"

\* items.filter_map(|x| Match::match_named_value(name, x)).collect()
RECURSIVE FilterMapMatches(_, _, _)
FilterMapMatches(p, its, i) ==
    IF i > Len(its) THEN <<>>
    ELSE LET m == match_named_value(p, its, i)
         IN  (IF IsSome(m) THEN <<Unwrap(m)>> ELSE <<>>) \o FilterMapMatches(p, its, i + 1)

\* A bug of InsertByCompareMatches: an unstable sort, x goes before its equals.
RECURSIVE InsertByCompareMatches_unstable(_, _, _)
InsertByCompareMatches_unstable(its, sorted, x) ==
    IF sorted = <<>> THEN <<x>>
    ELSE IF compare_matches(its, Head(sorted), x) /= "Less" THEN <<x>> \o sorted
    ELSE <<Head(sorted)>> \o InsertByCompareMatches_unstable(its, Tail(sorted), x)

\* One step of the stable sort: x goes before the first element greater than it.
RECURSIVE InsertByCompareMatches(_, _, _)
InsertByCompareMatches(its, sorted, x) ==
    IF sorted = <<>> THEN <<x>>
    ELSE IF compare_matches(its, Head(sorted), x) = "Greater" THEN <<x>> \o sorted
    ELSE <<Head(sorted)>> \o InsertByCompareMatches(its, Tail(sorted), x)

\* matches.sort_by(compare_matches): slice::sort_by is stable.
RECURSIVE SortByCompareMatches(_, _, _)
SortByCompareMatches(its, ms, sorted) ==
    IF ms = <<>> THEN sorted
    ELSE SortByCompareMatches(its, Tail(ms), InsertByCompareMatches(its, sorted, Head(ms)))

\* find_best_mut: Option<index of the item returned>.
find_best_mut(p, its) ==
    LET matches == SortByCompareMatches(its, FilterMapMatches(p, its, 1), <<>>)
    IN  IF matches = <<>> THEN None ELSE Some(Head(matches).v)

----------------------------------------------------------------------------
(* alg.rs: the inputs of find_best_mut *)

MaxItems == 3

NamePool ==
    { <<"b", "a", "r">>,
      <<"b", "a", "z">>,
      <<"b", "a", "r", "s", "t", "o", "o", "l">> }

PatPool ==
    { <<"b", "a">>,
      <<"b", "a", "r">>,
      <<"f", "i", "z", "z">> }

\* 5.0, 10.0 and 100.0
ValuePool == { F64(5, 0), F64(5, 1), F64(25, 2) }

AlgScorePool == {None} \cup { Some(Score(v, 0)) : v \in ValuePool }

AlgItemPool == { Value(n, s) : n \in NamePool, s \in AlgScorePool }

SeqsUpTo(S, n) == UNION { [1..k -> S] : k \in 1..n }

AlgInit ==
    /\ items \in SeqsUpTo(AlgItemPool, MaxItems)
    /\ pat \in PatPool
    /\ best = None
    /\ apc = "ready"

AlgIdle ==
    /\ items = <<>>
    /\ pat = <<>>
    /\ best = None
    /\ apc = "off"

\* let best_match = find_best_mut(pat, items.iter_mut())
FindBestMut ==
    /\ apc = "ready"
    /\ best' = find_best_mut(pat, items)
    /\ apc' = "found"
    /\ UNCHANGED <<items, pat, notAlgVars>>

AlgNext == FindBestMut

----------------------------------------------------------------------------
(* alg.rs: the AsciiKeywords iterator, one next() at a time, and            *)
(* match_named_value on one named value.  index counts from 0.              *)

\* next(), from the run s[start..stop] on: [item |-> Option<&str>, index].
AsciiKeywords_yield(s, start, stop) ==
    IF stop = start THEN [item |-> None, index |-> stop]
    ELSE [item |-> Some(SubSeq(s, start + 1, stop)),
          index |-> SkipNonAlphanumeric(s, stop + 1) - 1]

\* AsciiKeywords::next
AsciiKeywords_next(s, index) ==
    IF index >= Len(s) THEN [item |-> None, index |-> index]
    ELSE IF is_ascii_alphabetic(s[index + 1])
        THEN AsciiKeywords_yield(s, index, SkipAlphabetic(s, index + 1) - 1)
    ELSE IF is_ascii_digit(s[index + 1])
        THEN AsciiKeywords_yield(s, index, SkipDigit(s, index + 1) - 1)
    ELSE AsciiKeywords_yield(s, index, index)

\* The kind of an Option<Match>, as an Option.
kind_of(m) == IF IsSome(m) THEN Some(Unwrap(m).kind) ELSE None

MaxNameLen == 3

\* A lower-case letter, an upper-case letter, a digit and a separator.
KwAlphabet == {"a", "B", "1", "_"}

\* The example of the documentation of ascii_keywords.
DocExample ==
    <<"h", "e", "l", "l", "o", "_", "w", "o", "r", "l", "d", ",", " ",
      "t", "e", "s", "t", "i", "n", "g", "1", "2", "3", "!">>

KwNamePool == SeqsUpTo(KwAlphabet, MaxNameLen) \cup {DocExample}

KwPatPool ==
    { <<"a">>,
      <<"a", "b">>,
      <<"a", "_", "b">>,
      <<"B", "1">>,
      <<"H", "E", "L">> }

KwInit ==
    /\ kname \in KwNamePool
    /\ kpat \in KwPatPool
    /\ kindex = 0
    /\ kout = <<>>
    /\ kdone = FALSE
    /\ kmatch = None

KwIdle ==
    /\ kname = <<>>
    /\ kpat = <<>>
    /\ kindex = 0
    /\ kout = <<>>
    /\ kdone = TRUE
    /\ kmatch = None

\* keywords.next()
KeywordsNext ==
    /\ ~kdone
    /\ \E r \in {AsciiKeywords_next(kname, kindex)} :
        /\ kindex' = r.index
        /\ kout' = IF IsSome(r.item) THEN Append(kout, Unwrap(r.item)) ELSE kout
        /\ kdone' = ~IsSome(r.item)
    /\ UNCHANGED <<kname, kpat, kmatch, notKwVars>>

\* Match::match_named_value(pat, v), for a value named kname
MatchNamedValue ==
    /\ kname /= <<>>
    /\ kmatch = None
    /\ kmatch' = Some(kind_of(match_named_value(kpat, <<Value(kname, None)>>, 1)))
    /\ UNCHANGED <<kname, kpat, kindex, kout, kdone, notKwVars>>

KwNext == KeywordsNext \/ MatchNamedValue

----------------------------------------------------------------------------
(* alg.rs: update_score *)

HOUR == 3600

DAY == 86400

WEEK == 604800

saturating_sub(a, b) == IF a >= b THEN a - b ELSE 0

\* Score::new(value), with the clock reading t
Score_new(value, t) == Score(value, t)

\* A bug of update_score: each boundary falls in the earlier bucket.
update_score_inclusive(sc, t) ==
    IF ~IsSome(sc) THEN Some(Score_new(F64(1, 0), t))
    ELSE LET s == Unwrap(sc)
             age == saturating_sub(t, s.timestamp)
             value == IF age <= HOUR THEN MulPow2(s.value, 2)
                      ELSE IF age <= DAY THEN MulPow2(s.value, 1)
                      ELSE IF age <= WEEK THEN MulPow2(s.value, -1)
                      ELSE MulPow2(s.value, -2)
         IN  Some(Score(value, t))

\* update_score(&mut score), with the clock reading t: the new Option<Score>.
update_score(sc, t) ==
    IF ~IsSome(sc) THEN Some(Score_new(F64(1, 0), t))
    ELSE LET s == Unwrap(sc)
             age == saturating_sub(t, s.timestamp)
             value == IF age < HOUR THEN MulPow2(s.value, 2)
                      ELSE IF age < DAY THEN MulPow2(s.value, 1)
                      ELSE IF age < WEEK THEN MulPow2(s.value, -1)
                      ELSE MulPow2(s.value, -2)
         IN  Some(Score(value, t))

MaxHits == 2

\* Clock readings on both sides of each boundary of update_score.
TimePool == {0, HOUR - 1, HOUR, DAY - 1, DAY, WEEK - 1, WEEK, WEEK + DAY}

\* 1.0, 4.0, the values of ValuePool, and 2^1022, the value of a score that
\* was created and then updated 511 times, each time within the hour.
SeedValuePool == { F64(1, 0), F64(1, 2), F64(1, 1022) } \cup ValuePool

ScoreInit ==
    /\ slot \in {None} \cup { Some(Score(v, t)) : v \in SeedValuePool, t \in TimePool }
    /\ now \in TimePool
    /\ hits = 0
    /\ lasthit = None

ScoreIdle ==
    /\ slot = None
    /\ now = 0
    /\ hits = 0
    /\ lasthit = None

\* The system clock is set or advances between two calls.
Tick ==
    /\ hits < MaxHits
    /\ now' \in TimePool \ {now}
    /\ UNCHANGED <<slot, hits, lasthit, notScoreVars>>

\* update_score(&mut score)
UpdateScore ==
    /\ hits < MaxHits
    /\ slot' = update_score(slot, now)
    /\ hits' = hits + 1
    /\ lasthit' = Some([before |-> slot, at |-> now])
    /\ UNCHANGED <<now, notScoreVars>>

ScoreNext == Tick \/ UpdateScore

----------------------------------------------------------------------------
(* schema.rs: Score of the resolver *)

\* a < b as numbers
F64Less(a, b) == Scaled(a, MinExp(a, b)) < Scaled(b, MinExp(a, b))

\* Score::default(), with the clock reading t
Score_default(t) == Score(F64(1, 2), t)

\* Score::record_hit(&mut self), with the clock reading t
record_hit(s, t) ==
    Score(IF F64Less(s.value, F64(1, 0)) THEN F64(1, 2) ELSE MulPow2(s.value, 1), t)

\* impl PartialOrd for Score (schema.rs): the order of the values.
schema_Score_partial_cmp(a, b) == f64_partial_cmp(a.value, b.value)

\* Option<Score>::partial_cmp over schema.rs's Score: None is less than Some.
schema_OptionScore_partial_cmp(a, b) ==
    IF ~IsSome(a) /\ ~IsSome(b) THEN Some("Equal")
    ELSE IF ~IsSome(a) THEN Some("Less")
    ELSE IF ~IsSome(b) THEN Some("Greater")
    ELSE schema_Score_partial_cmp(Unwrap(a), Unwrap(b))

----------------------------------------------------------------------------
(* main.rs: the schema and the keyword map.  An object is                   *)
(* [name, foreign_keys]; a map entry is [key, value |-> [id, score]].       *)

ForeignKey(obj) == [referenced_object |-> obj]

Table(name, fks) == [name |-> name, foreign_keys |-> fks]

ObjectTree(root, children) == [root |-> root, children |-> children]

\* A bug of normalize_case: the string is left as it is.
normalize_case_verbatim(s) == s

\* String::to_lowercase, on ASCII text
normalize_case(s) == to_ascii_lowercase(s)

\* Schema::iter_with_score: (id, object, score) of every object, in allocation order.
iter_with_score(objs, scores) ==
    [i \in 1..Len(objs) |-> [id |-> i, obj |-> objs[i], score |-> scores[i]]]

\* A bug of foreign_objects: no filter, every object is a candidate.
foreign_objects_unfiltered(objs, scores, id) == iter_with_score(objs, scores)

\* foreign_objects: the objects with a foreign key whose referenced_object is id.
foreign_objects(objs, scores, id) ==
    SelectSeq(iter_with_score(objs, scores),
              LAMBDA e : \E k \in 1..Len(e.obj.foreign_keys) :
                             e.obj.foreign_keys[k].referenced_object = id)

\* create_id_keyword_map: one insert per element, keyed by the normalized name.
create_id_keyword_map(iter) ==
    [i \in 1..Len(iter) |->
        [key |-> normalize_case(iter[i].obj.name),
         value |-> [id |-> iter[i].id, score |-> iter[i].score]]]

\* The Match of one entry for a name: Exact when the key equals it, Prefix
\* when a keyword of the key starts with it, none otherwise.  The map compares
\* the strings it is given; its callers normalize the keys and the name.
match_entry(e, key, kws, name) ==
    IF key = name THEN <<Match("Exact", e.value)>>
    ELSE IF \E n \in 1..Len(kws) : starts_with(kws[n], name)
        THEN <<Match("Prefix", e.value)>>
    ELSE <<>>

\* KeywordMap::find_by_partial_keyword: a Match for every entry whose key equals
\* the name (Exact) or has a keyword starting with it (Prefix), in insertion
\* order.
RECURSIVE find_by_partial_keyword(_, _, _)
find_by_partial_keyword(map, name, i) ==
    IF i > Len(map) THEN <<>>
    ELSE match_entry(map[i], map[i].key, ascii_keywords(map[i].key), name)
         \o find_by_partial_keyword(map, name, i + 1)

\* A bug of the closure: the comparison is not reversed, the lowest score and
\* the unscored come first.
find_best_match_cmp_unreversed(a, b) ==
    LET c == schema_OptionScore_partial_cmp(a.v.score, b.v.score)
    IN  IF IsSome(c) THEN Unwrap(c) ELSE "Greater"

\* The closure find_best_match sorts by: the scores compared, the result reversed.
find_best_match_cmp(a, b) ==
    LET c == schema_OptionScore_partial_cmp(a.v.score, b.v.score)
    IN  reverse(IF IsSome(c) THEN Unwrap(c) ELSE "Greater")

RECURSIVE InsertByScore(_, _)
InsertByScore(sorted, x) ==
    IF sorted = <<>> THEN <<x>>
    ELSE IF find_best_match_cmp(Head(sorted), x) = "Greater" THEN <<x>> \o sorted
    ELSE <<Head(sorted)>> \o InsertByScore(Tail(sorted), x)

\* matches.sort_by(closure): slice::sort_by is stable.
RECURSIVE SortByScore(_, _)
SortByScore(ms, sorted) ==
    IF ms = <<>> THEN sorted
    ELSE SortByScore(Tail(ms), InsertByScore(sorted, Head(ms)))

\* matches.first(), as the id it holds
first_id(matches) == IF matches = <<>> THEN None ELSE Some(Head(matches).v.id)

\* find_best_match (main.rs): Option<ObjectId>.
find_best_match(map, name) ==
    first_id(SortByScore(find_by_partial_keyword(map, name, 1), <<>>))

----------------------------------------------------------------------------
(* main.rs: ObjectTree::resolve_names *)

\* Display for ResolutionError: unable to resolve: '<name>'
ResolutionError_fmt(name) ==
    <<"u", "n", "a", "b", "l", "e", " ", "t", "o", " ",
      "r", "e", "s", "o", "l", "v", "e", ":", " ", "'">> \o name \o <<"'">>

\* A bug of record_best_match: the error carries the normalized name.
record_best_match_normalized(best_match, name, scores, t) ==
    IF ~IsSome(best_match)
        THEN [id |-> None, err |-> Some(normalize_case(name)), scores |-> scores]
    ELSE [id |-> best_match,
          err |-> None,
          scores |-> [scores EXCEPT ![Unwrap(best_match)] =
                         IF IsSome(@) THEN Some(record_hit(Unwrap(@), t))
                         ELSE Some(Score_default(t))]]

\* A bug of record_best_match: the insert gives every unscored object a score.
record_best_match_fill(best_match, name, scores, t) ==
    IF ~IsSome(best_match) THEN [id |-> None, err |-> Some(name), scores |-> scores]
    ELSE [id |-> best_match,
          err |-> None,
          scores |-> IF IsSome(scores[Unwrap(best_match)])
                         THEN [scores EXCEPT ![Unwrap(best_match)] =
                                   Some(record_hit(Unwrap(scores[Unwrap(best_match)]), t))]
                     ELSE [i \in DOMAIN scores |->
                              IF IsSome(scores[i]) THEN scores[i]
                              ELSE Some(Score_default(t))]]

\* A bug of record_best_match: every scored object is hit, not only the match.
record_best_match_all(best_match, name, scores, t) ==
    IF ~IsSome(best_match) THEN [id |-> None, err |-> Some(name), scores |-> scores]
    ELSE [id |-> best_match,
          err |-> None,
          scores |-> [i \in DOMAIN scores |->
                         IF IsSome(scores[i]) THEN Some(record_hit(Unwrap(scores[i]), t))
                         ELSE IF i = Unwrap(best_match) THEN Some(Score_default(t))
                         ELSE None]]

\* The end of the closure of resolve_names: the error naming the node, or the
\* hit recorded for the best match:
\* [id |-> Option<ObjectId>, err |-> Option<String>, scores].
record_best_match(best_match, name, scores, t) ==
    IF ~IsSome(best_match) THEN [id |-> None, err |-> Some(name), scores |-> scores]
    ELSE [id |-> best_match,
          err |-> None,
          scores |-> [scores EXCEPT ![Unwrap(best_match)] =
                         IF IsSome(@) THEN Some(record_hit(Unwrap(@), t))
                         ELSE Some(Score_default(t))]]

\* The candidates of a node: all objects at the root, below an ancestor those
\* with a foreign key to the nearest one.
candidates(objs, scores, ancestors) ==
    IF ancestors /= <<>> THEN foreign_objects(objs, scores, ancestors[Len(ancestors)])
    ELSE iter_with_score(objs, scores)

\* The closure of resolve_names, for one node.
resolve_node(objs, scores, t, ancestors, name) ==
    record_best_match(
        find_best_match(create_id_keyword_map(candidates(objs, scores, ancestors)),
                        normalize_case(name)),
        name, scores, t)

\* The walk of ObjectTree::try_map_with_ancestors over the trees from the k-th
\* on, all under the same ancestors, with the closure of resolve_names: a node
\* first, then its children in order, each with the chain extended by the
\* node's id, then the node's next sibling; the first error ends the walk.
\* The result is [trees, err |-> Option<String>, scores, log]; the path of a
\* node is its position among its siblings, after that of its parent.
RECURSIVE try_map_forest(_, _, _, _, _, _, _)
RECURSIVE try_map_node(_, _, _, _, _, _, _, _)
RECURSIVE try_map_siblings(_, _, _, _, _, _, _, _)

\* The walk, all done: the node's tree before those of its later siblings.
try_map_done(entry, cs, rest) ==
    [trees |-> <<ObjectTree(entry.id, cs.trees)>> \o rest.trees,
     err |-> rest.err,
     scores |-> rest.scores,
     log |-> <<entry>> \o cs.log \o rest.log]

\* The walk after the children of the k-th tree gave cs.
try_map_siblings(trees, k, ancestors, path, objs, t, entry, cs) ==
    IF IsSome(cs.err)
        THEN [trees |-> <<>>, err |-> cs.err, scores |-> cs.scores,
              log |-> <<entry>> \o cs.log]
    ELSE try_map_done(entry, cs,
                      try_map_forest(trees, k + 1, ancestors, path, objs, cs.scores, t))

\* The walk after the closure gave r for the root of the k-th tree.
try_map_node(trees, k, ancestors, path, objs, scores, t, r) ==
    IF IsSome(r.err)
        THEN [trees |-> <<>>, err |-> r.err, scores |-> scores, log |-> <<>>]
    ELSE try_map_siblings(trees, k, ancestors, path, objs, t,
                          [path |-> Append(path, k), name |-> trees[k].root,
                           id |-> Unwrap(r.id), before |-> scores[Unwrap(r.id)],
                           after |-> r.scores[Unwrap(r.id)], at |-> t,
                           seen |-> scores, left |-> r.scores],
                          try_map_forest(trees[k].children, 1,
                                         Append(ancestors, Unwrap(r.id)),
                                         Append(path, k), objs, r.scores, t))

try_map_forest(trees, k, ancestors, path, objs, scores, t) ==
    IF k > Len(trees) THEN [trees |-> <<>>, err |-> None, scores |-> scores, log |-> <<>>]
    ELSE try_map_node(trees, k, ancestors, path, objs, scores, t,
                      resolve_node(objs, scores, t, ancestors, trees[k].root))

\* A bug of try_map_with_ancestors: a failed walk gives back the scores it
\* started with.
try_map_with_ancestors_rollback(tree, objs, scores, t) ==
    LET w == try_map_forest(<<tree>>, 1, <<>>, <<>>, objs, scores, t)
    IN  [tree |-> IF IsSome(w.err) THEN None ELSE Some(w.trees[1]),
         err |-> w.err,
         scores |-> IF IsSome(w.err) THEN scores ELSE w.scores,
         log |-> w.log]

\* ObjectTree::try_map_with_ancestors, with the closure of resolve_names:
\* [tree |-> Option<ObjectTree<ObjectId>>, err |-> Option<String>, scores, log].
try_map_with_ancestors(tree, objs, scores, t) ==
    LET w == try_map_forest(<<tree>>, 1, <<>>, <<>>, objs, scores, t)
    IN  [tree |-> IF IsSome(w.err) THEN None ELSE Some(w.trees[1]),
         err |-> w.err,
         scores |-> w.scores,
         log |-> w.log]

\* ObjectTree<String>::resolve_names(self, ctx)
resolve_names(tree, objs, scores, t) == try_map_with_ancestors(tree, objs, scores, t)

----------------------------------------------------------------------------
(* main.rs: schemas, queries and the resolver's actions *)

AUTH_USERS == <<"A", "U", "T", "H", "_", "U", "S", "E", "R", "S">>

AUTH_PRIVILEGES ==
    <<"A", "U", "T", "H", "_", "P", "R", "I", "V", "I", "L", "E", "G", "E", "S">>

LOGS == <<"L", "O", "G", "S">>

ObjectNames == <<AUTH_USERS, AUTH_PRIVILEGES, LOGS>>

\* The foreign keys a schema may declare, <<from, to>>: privileges to users (the
\* test's), logs to users, logs to privileges.
EdgePool == { <<2, 1>>, <<3, 1>>, <<3, 2>> }

\* The foreign keys of object i, in the order of their targets.
RECURSIVE KeysFrom(_, _, _)
KeysFrom(edges, i, to) ==
    IF to > Len(ObjectNames) THEN <<>>
    ELSE (IF <<i, to>> \in edges THEN <<ForeignKey(to)>> ELSE <<>>)
         \o KeysFrom(edges, i, to + 1)

SchemaOf(edges) == [i \in 1..Len(ObjectNames) |-> Table(ObjectNames[i], KeysFrom(edges, i, 1))]

user == <<"u", "s", "e", "r">>

priv == <<"p", "r", "i", "v">>

log == <<"l", "o", "g">>

auth == <<"a", "u", "t", "h">>

Fizz == <<"F", "i", "z", "z">>

UsEr == <<"U", "s", "E", "r">>

RootPool == {user, priv, auth, Fizz}

ChildPool == {priv, log, Fizz}

\* The single children: auth names users and privileges alike.
OnlyChildPool == ChildPool \cup {auth}

\* The pairs of siblings below user: both resolvable, the same one twice, and
\* a failing one before or after another.
SiblingPool ==
    { <<priv, log>>, <<log, priv>>, <<priv, priv>>, <<Fizz, log>>, <<log, Fizz>> }

Leaf(n) == ObjectTree(n, <<>>)

\* a, a>b, a>b+c and a>b>c over the tokens
TreePool ==
    { Leaf(a) : a \in RootPool \cup {UsEr} }
    \cup { ObjectTree(a, <<Leaf(b)>>) : a \in RootPool \ {Fizz}, b \in OnlyChildPool }
    \cup { ObjectTree(user, <<Leaf(bc[1]), Leaf(bc[2])>>) : bc \in SiblingPool }
    \cup { ObjectTree(user, <<ObjectTree(priv, <<Leaf(c)>>)>>) : c \in ChildPool }

MaxQueries == 2

\* The clock readings of the resolver: a start, less than an hour later, more
\* than a week later.
ResTimePool == {0, HOUR - 1, WEEK + HOUR}

ResInit ==
    /\ objects \in { SchemaOf(e) : e \in SUBSET EdgePool }
    /\ object_scores = [i \in 1..Len(ObjectNames) |-> None]
    /\ now = 0
    /\ query = None
    /\ result = None
    /\ hitlog = <<>>
    /\ nq = 0
    /\ given = None
    /\ resolved = None

ResIdle ==
    /\ objects = <<>>
    /\ object_scores = <<>>
    /\ query = None
    /\ result = None
    /\ hitlog = <<>>
    /\ nq = 0
    /\ given = None
    /\ resolved = None

\* Time passes between two queries.
ResTick ==
    /\ objects /= <<>>
    /\ nq < MaxQueries
    /\ \E t \in ResTimePool : t > now /\ now' = t
    /\ UNCHANGED <<resVars, notResVars>>

\* query.object.resolve_names(&schema)
ResolveNames ==
    /\ objects /= <<>>
    /\ nq < MaxQueries
    /\ \E tree \in TreePool :
        \E r \in {resolve_names(tree, objects, object_scores, now)} :
            /\ query' = Some(tree)
            /\ result' = Some([tree |-> r.tree, err |-> r.err,
                                msg |-> IF IsSome(r.err)
                                            THEN Some(ResolutionError_fmt(Unwrap(r.err)))
                                        ELSE None])
            /\ object_scores' = r.scores
            /\ hitlog' = r.log
    /\ nq' = nq + 1
    /\ given' = None
    /\ resolved' = None
    /\ UNCHANGED <<objects, now, notResVars>>

----------------------------------------------------------------------------
(* query.rs: the parser.  A ParseResult is [st |-> "Ok" | "Err" | "Panic",  *)
(* rest |-> the remaining input, val |-> the value parsed]; offsets into a *)
(* string count from 0 as in the source.                                    *)

Ok(rest, val) == [st |-> "Ok", rest |-> rest, val |-> <<val>>]

Err == [st |-> "Err", rest |-> <<>>, val |-> <<>>]

\* The unwrap() of a failed str::parse.
Panic == [st |-> "Panic", rest |-> <<>>, val |-> <<>>]

IsOk(r) == r.st = "Ok"

\* A failed step, passed on by the ? operator.
Failed(r) == [st |-> r.st, rest |-> <<>>, val |-> <<>>]

\* &s[i..]
From(s, i) == SubSeq(s, i + 1, Len(s))

\* &s[..i]
To(s, i) == SubSeq(s, 1, i)

\* str::find with a predicate: the offset of the first character satisfying
\* it; hit[i] tells whether the i-th character does.
find(hit) ==
    IF \E i \in DOMAIN hit : hit[i]
        THEN Some((CHOOSE i \in DOMAIN hit : hit[i] /\ \A j \in 1..(i - 1) : ~hit[j]) - 1)
    ELSE None

\* char::is_whitespace, on the characters of the pools
is_whitespace(c) == c \in {" ", "\t", "\n"}

\* char::is_alphanumeric, on ASCII text
is_alphanumeric(c) == is_ascii_alphanumeric(c)

\* A bug of skip_whitespace: only the spaces are trimmed.
skip_whitespace_spaces(input) ==
    IF \E i \in 1..Len(input) : input[i] /= " "
        THEN From(input, Unwrap(find([i \in 1..Len(input) |-> input[i] /= " "])))
    ELSE <<>>

skip_whitespace(input) ==
    IF \E i \in 1..Len(input) : ~is_whitespace(input[i])
        THEN From(input, Unwrap(find([i \in 1..Len(input) |-> ~is_whitespace(input[i])])))
    ELSE <<>>

\* A bug of parse_identifier: the checks for an empty identifier are missing.
parse_identifier_at_unchecked(input, stop) ==
    IF IsSome(stop)
        THEN Ok(From(input, Unwrap(stop)), To(input, Unwrap(stop)))
    ELSE Ok(<<>>, input)

parse_identifier_at(input, stop) ==
    IF IsSome(stop)
        THEN IF Unwrap(stop) = 0 THEN Err
             ELSE Ok(From(input, Unwrap(stop)), To(input, Unwrap(stop)))
    ELSE IF input = <<>> THEN Err
    ELSE Ok(<<>>, input)

parse_identifier_trimmed(input) ==
    parse_identifier_at(input,
                        find([i \in 1..Len(input) |->
                                  ~is_alphanumeric(input[i]) /\ input[i] /= "_"]))

parse_identifier(input) == parse_identifier_trimmed(skip_whitespace(input))

RECURSIVE parse_object_tree(_)
RECURSIVE parse_object_tree_loop(_, _, _)

\* A bug of the push: the last of several children of the child parsed is
\* pushed as its sibling.
parse_object_tree_push_hoisted(root, children, c) ==
    IF ~IsOk(c) THEN Failed(c)
    ELSE IF Len(Unwrap(c.val).children) >= 2
        THEN parse_object_tree_loop(
                 root,
                 children
                     \o <<ObjectTree(Unwrap(c.val).root,
                                     SubSeq(Unwrap(c.val).children, 1,
                                            Len(Unwrap(c.val).children) - 1)),
                          Unwrap(c.val).children[Len(Unwrap(c.val).children)]>>,
                 skip_whitespace(c.rest))
    ELSE parse_object_tree_loop(root, Append(children, Unwrap(c.val)),
                                skip_whitespace(c.rest))

\* A child was parsed (or not): push it and look for the next '+'.
parse_object_tree_push(root, children, c) ==
    IF ~IsOk(c) THEN Failed(c)
    ELSE parse_object_tree_loop(root, Append(children, Unwrap(c.val)),
                                skip_whitespace(c.rest))

\* A bug of the loop: the child after a '+' replaces the children before it.
parse_object_tree_loop_last(root, children, input) ==
    IF input /= <<>> /\ input[1] = "+"
        THEN parse_object_tree_push(root, <<>>, parse_object_tree(From(input, 1)))
    ELSE Ok(input, ObjectTree(root, children))

\* while let Some('+') = input.chars().next()
parse_object_tree_loop(root, children, input) ==
    IF input /= <<>> /\ input[1] = "+"
        THEN parse_object_tree_push(root, children, parse_object_tree(From(input, 1)))
    ELSE Ok(input, ObjectTree(root, children))

\* After the root identifier: a '>' and the children, or nothing.
parse_object_tree_children(root, input) ==
    IF ~starts_with(input, <<">">>) THEN Ok(input, ObjectTree(root, <<>>))
    ELSE parse_object_tree_push(root, <<>>, parse_object_tree(From(input, 1)))

parse_object_tree_root(r) ==
    IF ~IsOk(r) THEN Failed(r)
    ELSE parse_object_tree_children(Unwrap(r.val), skip_whitespace(r.rest))

parse_object_tree(input) == parse_object_tree_root(parse_identifier(skip_whitespace(input)))

\* A Literal is String(s) or Integer(i).
Literal_String(s) == [kind |-> "String", s |-> s, i |-> 0]

Literal_Integer(i) == [kind |-> "Integer", s |-> <<>>, i |-> i]

DigitChars == <<"0", "1", "2", "3", "4", "5", "6", "7", "8", "9">>

DigitValue(c) == (CHOOSE n \in 1..10 : DigitChars[n] = c) - 1

\* The digits of i64::MAX, 9223372036854775807.
I64_MAX_DIGITS ==
    <<"9", "2", "2", "3", "3", "7", "2", "0", "3", "6",
      "8", "5", "4", "7", "7", "5", "8", "0", "7">>

StripZeros(digits) ==
    IF \E i \in 1..Len(digits) : digits[i] /= "0"
        THEN From(digits, Unwrap(find([i \in 1..Len(digits) |-> digits[i] /= "0"])))
    ELSE <<>>

\* The number written by a, b of the same length: a > b.
DigitsGreater(a, b) ==
    \E i \in 1..Len(a) :
        /\ DigitValue(a[i]) > DigitValue(b[i])
        /\ \A j \in 1..(i - 1) : a[j] = b[j]

RECURSIVE DecimalValue(_, _)
DecimalValue(digits, n) ==
    IF n = 0 THEN 0
    ELSE 10 * DecimalValue(digits, n - 1) + DigitValue(digits[n])

\* str::parse::<i64> on a non-empty run of digits: None when the number does
\* not fit an i64.
i64_from_str(digits) ==
    IF \/ Len(StripZeros(digits)) > Len(I64_MAX_DIGITS)
       \/ /\ Len(StripZeros(digits)) = Len(I64_MAX_DIGITS)
          /\ DigitsGreater(StripZeros(digits), I64_MAX_DIGITS)
        THEN None
    ELSE Some(DecimalValue(StripZeros(digits), Len(StripZeros(digits))))

\* value.parse().unwrap()
parse_literal_integer(rest, value) ==
    IF ~IsSome(value) THEN Panic
    ELSE Ok(rest, Literal_Integer(Unwrap(value)))

parse_literal_quoted(input, end_quote) ==
    IF ~IsSome(end_quote) THEN Err
    ELSE Ok(From(input, Unwrap(end_quote) + 2),
            Literal_String(SubSeq(input, 2, Unwrap(end_quote) + 1)))

parse_literal_word(input, next_whitespace) ==
    IF IsSome(next_whitespace)
        THEN IF Unwrap(next_whitespace) /= 0
                 THEN Ok(From(input, Unwrap(next_whitespace)),
                         Literal_String(To(input, Unwrap(next_whitespace))))
             ELSE Err
    ELSE IF input /= <<>> THEN Ok(<<>>, Literal_String(input))
    ELSE Err

\* A bug of parse_literal: the bare word is tried before the integer.
parse_literal_unquoted_word_first(input, next_non_digit) ==
    parse_literal_word(input, find([i \in 1..Len(input) |-> is_whitespace(input[i])]))

parse_literal_unquoted(input, next_non_digit) ==
    IF IsSome(next_non_digit) /\ Unwrap(next_non_digit) /= 0
        THEN parse_literal_integer(From(input, Unwrap(next_non_digit)),
                                   i64_from_str(To(input, Unwrap(next_non_digit))))
    ELSE IF ~IsSome(next_non_digit) /\ input /= <<>>
        THEN parse_literal_integer(<<>>, i64_from_str(input))
    ELSE parse_literal_word(input, find([i \in 1..Len(input) |-> is_whitespace(input[i])]))

parse_literal_trimmed(input) ==
    IF input = <<>> THEN Err
    ELSE IF input[1] \in {"'", "\""}
        THEN parse_literal_quoted(input,
                                  find([i \in 1..(Len(input) - 1) |-> input[i + 1] = input[1]]))
    ELSE parse_literal_unquoted(input, find([i \in 1..Len(input) |-> ~is_ascii_digit(input[i])]))

parse_literal(input) == parse_literal_trimmed(skip_whitespace(input))

parse_operator_trimmed(input) ==
    IF starts_with(input, <<"=">>) THEN Ok(From(input, 1), "Eq")
    ELSE IF starts_with(input, <<"!", "=">>) THEN Ok(From(input, 2), "Ne")
    ELSE IF starts_with(input, <<"<">>)
        THEN IF starts_with(From(input, 1), <<"=">>) THEN Ok(From(input, 2), "Le")
             ELSE Ok(From(input, 1), "Lt")
    ELSE IF starts_with(input, <<">">>)
        THEN IF starts_with(From(input, 1), <<"=">>) THEN Ok(From(input, 2), "Ge")
             ELSE Ok(From(input, 1), "Gt")
    ELSE Err

parse_operator(input) == parse_operator_trimmed(skip_whitespace(input))

Predicate(identifier, operator, value) ==
    [identifier |-> identifier, operator |-> operator, value |-> value]

parse_predicate_value(identifier, operator, r) ==
    IF ~IsOk(r) THEN Failed(r)
    ELSE Ok(r.rest, Predicate(identifier, operator, Unwrap(r.val)))

parse_predicate_operator(identifier, r) ==
    IF ~IsOk(r) THEN Failed(r)
    ELSE parse_predicate_value(identifier, Unwrap(r.val),
                               parse_literal(skip_whitespace(r.rest)))

parse_predicate_identifier(r) ==
    IF ~IsOk(r) THEN Failed(r)
    ELSE parse_predicate_operator(Unwrap(r.val),
                                  parse_operator(skip_whitespace(skip_whitespace(r.rest))))

parse_predicate(input) == parse_predicate_identifier(parse_identifier(skip_whitespace(input)))

Query(object, predicates) == [object |-> object, predicates |-> predicates]

\* The result of parse: [st |-> "Ok" | "Err" | "Panic", query |-> Option<Query>].
RECURSIVE parse_predicates(_, _, _)

parse_predicates_push(object, predicates, r) ==
    IF ~IsOk(r) THEN [st |-> r.st, query |-> None]
    ELSE parse_predicates(object, Append(predicates, Unwrap(r.val)),
                          skip_whitespace(r.rest))

\* while !remaining_input.is_empty()
parse_predicates(object, predicates, remaining_input) ==
    IF remaining_input = <<>>
        THEN [st |-> "Ok", query |-> Some(Query(object, predicates))]
    ELSE parse_predicates_push(object, predicates, parse_predicate(remaining_input))

parse_object(r) ==
    IF ~IsOk(r) THEN [st |-> r.st, query |-> None]
    ELSE parse_predicates(Unwrap(r.val), <<>>, skip_whitespace(r.rest))

parse(input) == parse_object(parse_object_tree(skip_whitespace(input)))

----------------------------------------------------------------------------
(* query.rs: Display *)

RECURSIVE i64_to_string(_)
i64_to_string(n) ==
    IF n < 0 THEN <<"-">> \o i64_to_string(0 - n)
    ELSE IF n < 10 THEN <<DigitChars[n + 1]>>
    ELSE i64_to_string(n \div 10) \o <<DigitChars[(n % 10) + 1]>>

contains(s, c) == \E i \in 1..Len(s) : s[i] = c

Literal_fmt(l) ==
    IF l.kind = "String"
        THEN IF contains(l.s, " ") THEN <<"'">> \o l.s \o <<"'">> ELSE l.s
    ELSE i64_to_string(l.i)

RECURSIVE ObjectTree_fmt(_)
RECURSIVE ObjectTree_fmt_children(_, _)

ObjectTree_fmt_children(children, i) ==
    IF i > Len(children) THEN <<>>
    ELSE (IF i > 1 THEN <<"+">> ELSE <<>>)
         \o ObjectTree_fmt(children[i])
         \o ObjectTree_fmt_children(children, i + 1)

ObjectTree_fmt(t) ==
    t.root \o (IF t.children /= <<>>
                   THEN <<">">> \o ObjectTree_fmt_children(t.children, 1)
               ELSE <<>>)

Operator_fmt(o) ==
    CASE o = "Eq" -> <<"=">>
      [] o = "Ne" -> <<"!", "=">>
      [] o = "Lt" -> <<"<">>
      [] o = "Gt" -> <<">">>
      [] o = "Le" -> <<"<", "=">>
      [] o = "Ge" -> <<">", "=">>

Predicate_fmt(p) == p.identifier \o Operator_fmt(p.operator) \o Literal_fmt(p.value)

RECURSIVE Query_fmt_predicates(_, _)
Query_fmt_predicates(predicates, i) ==
    IF i > Len(predicates) THEN <<>>
    ELSE (IF i > 1 THEN <<" ">> ELSE <<>>)
         \o Predicate_fmt(predicates[i])
         \o Query_fmt_predicates(predicates, i + 1)

Query_fmt(q) ==
    ObjectTree_fmt(q.object)
    \o (IF q.predicates /= <<>>
            THEN <<" ">> \o Query_fmt_predicates(q.predicates, 1)
        ELSE <<>>)

----------------------------------------------------------------------------
(* query.rs: the inputs of parse, and the round trip of its tests *)

MaxPredicates == 2

TreeTexts ==
    {
      <<"a">>,                                                  \* a
      <<"a", ">", "b">>,                                        \* a>b
      <<"a", ">", "b", "+", "c">>,                              \* a>b+c
      <<"a", ">", "b", "+", "c", ">", "d">>,                    \* a>b+c>d
      <<"a", ">", "b", ">", "c", "+", "d">>,                    \* a>b>c+d
      <<" ", "a", " ", ">", " ", "b", " ", "+", "c">>,          \*  a > b +c
      <<"a", ">">>,                                             \* a>
      <<"a", "+", "b">>,                                        \* a+b
      <<"A", "_", "1", ">", "b", "2">>                          \* A_1>b2
    }

PredicateTexts ==
    {
      <<"f", "o", "o", "=", "b", "a", "r">>,                    \* foo=bar
      <<"b", "a", "z", ">", "4", "2">>,                         \* baz>42
      <<"x", "=", "'", "4", "2", "'">>,                         \* x='42'
      <<"x", "=", "'", "a", " ", "b", "'">>,                    \* x='a b'
      <<"x", "=", "\"", "i", "t", "'", "s", " ", "a", "\"">>,   \* x="it's a"
      <<"x", "=", "'", "'">>,                                   \* x=''
      <<"x", "<", "=", "0", "0", "7">>,                         \* x<=007
      <<"x", " ", "!", "=", " ", "y">>,                         \* x != y
      <<"x", ">", "=", "'", "a", "\t", "b", "'">>,              \* x>='a<TAB>b'
      <<"x", "<", "1", "2", "a", "b">>                          \* x<12ab
    }

RECURSIVE JoinWithSpaces(_, _)
JoinWithSpaces(ps, i) ==
    IF i > Len(ps) THEN <<>>
    ELSE <<" ">> \o ps[i] \o JoinWithSpaces(ps, i + 1)

\* Texts that are no query.
BlankInputs ==
    { <<>>, <<" ">>, <<" ", "\t">> }

BadStartInputs ==
    {
      <<">", "a">>,                                             \* >a
      <<" ", "+", "a">>,                                        \*  +a
      <<"=", "a">>,                                             \* =a
      <<"\t", "'", "a", "'">>,                                  \* <TAB>'a'
      <<"-", "a", ">", "b">>                                    \* -a>b
    }

DanglingSeparatorInputs ==
    {
      <<"a", ">">>,                                             \* a>
      <<"a", ">", " ">>,                                        \* a>, blank
      <<"a", ">", ">", "b">>,                                   \* a>>b
      <<"a", ">", "+", "b">>,                                   \* a>+b
      <<"a", ">", "b", "+">>,                                   \* a>b+
      <<"a", ">", "b", "+", "+", "c">>,                         \* a>b++c
      <<"a", ">", "b", "+", " ", "=", "c">>,                    \* a>b+ =c
      <<"a", ">", "b", "+", "c", ">">>                          \* a>b+c>
    }

BadPredicateTexts ==
    {
      <<"x">>,                                                  \* x
      <<"x", " ", "y">>,                                        \* x y
      <<"x", " ", "4", "2">>,                                   \* x 42
      <<"x", "!", "y">>,                                        \* x!y
      <<"x", "~", "1">>,                                        \* x~1
      <<"x", "=">>,                                             \* x=
      <<"x", ">", "=", " ">>,                                   \* x>=, blank
      <<"x", "!", "=">>                                         \* x!=
    }

UnterminatedQuoteTexts ==
    {
      <<"x", "=", "'", "a", "b">>,                              \* x='ab
      <<"x", "=", "'">>,                                        \* x='
      <<"x", "=", "\"", "a", "'">>,                             \* x="a'
      <<"x", "<", " ", "'", "a", " ", "b", "\"">>               \* x< 'a b"
    }

\* The texts whose last predicate is q, after accepted predicates or none.
EndingWith(q) ==
    { t \o JoinWithSpaces(ps, 1) :
        t \in { <<"a">>, <<"a", ">", "b", "+", "c">> },
        ps \in { <<q>>, << <<"f", "o", "o", "=", "b", "a", "r">>, q >> } }

MalformedInputs ==
    BlankInputs \cup BadStartInputs \cup DanglingSeparatorInputs
        \cup UNION { EndingWith(q) : q \in BadPredicateTexts \cup UnterminatedQuoteTexts }

\* Accepted texts, token by token; the blanks an accepted text needs are
\* elements of their own.
TokenLists ==
    {
      << <<"a">> >>,
      << <<"a">>, <<">">>, <<"b">>, <<"+">>, <<"c">>, <<">">>, <<"d">> >>,
      << <<"A", "_", "1">>, <<">">>, <<"b", "2">> >>,
      << <<"a">>, <<">">>, <<"b">>, <<" ">>, <<"f", "o", "o">>, <<"=">>,
         <<"b", "a", "r">>, <<" ">>, <<"b", "a", "z">>, <<">">>, <<"4", "2">> >>,
      << <<"a">>, <<" ">>, <<"x">>, <<"=">>, <<"'", "a", " ", "b", "'">>,
         <<"y">>, <<"<", "=">>, <<"4", "2">>, <<"z">>, <<"!", "=">>,
         <<"\"", "q", "\"">> >>
    }

Whitespaces == { <<" ">>, <<"\t", " ">> }

\* The tokens from the i-th on, with w put into the gaps of the set G; gap
\* i - 1 is the one before the i-th token, gap Len(tokens) the one after the
\* last.
RECURSIVE Spaced(_, _, _, _)
Spaced(tokens, G, w, i) ==
    (IF (i - 1) \in G THEN w ELSE <<>>)
        \o (IF i > Len(tokens) THEN <<>>
            ELSE tokens[i] \o Spaced(tokens, G, w, i + 1))

\* An accepted text, and the text with whitespace put into one gap between
\* its tokens or into all of them.
WhitespacePairs ==
    UNION { { [base |-> Spaced(tokens, {}, <<>>, 1), spaced |-> Spaced(tokens, G, w, 1)] :
                G \in { {g} : g \in 0..Len(tokens) } \cup { 0..Len(tokens) },
                w \in Whitespaces } :
            tokens \in TokenLists }

\* Predicates whose value is a run of digits above i64::MAX: by one, and of
\* twenty digits.
LargeIntegerInputs ==
    { <<"a", " ", "x", "=">> \o To(I64_MAX_DIGITS, 18) \o <<"8">>, \* a x=9223372036854775808
      <<"a", ">", "b", " ", "x", "<">> \o I64_MAX_DIGITS \o <<"0">> }

\* Longer trees, without predicates.
DeepTreeTexts ==
    {
      <<"a", ">", "b", ">", "c", ">", "d", "+", "e", "+", "f">>,   \* a>b>c>d+e+f
      <<"a", ">", "b", "+", "c", ">", "d", "+", "e", ">", "f">>,   \* a>b+c>d+e>f
      <<"a", ">", "b", "+", "c", "+", "d", ">", "e", ">", "f">>    \* a>b+c+d>e>f
    }

InputPool ==
    TreeTexts
        \cup DeepTreeTexts
        \cup LargeIntegerInputs
        \cup { p.base : p \in WhitespacePairs }
        \cup { p.spaced : p \in WhitespacePairs }
        \cup { t \o JoinWithSpaces(ps, 1) :
                 t \in TreeTexts, ps \in SeqsUpTo(PredicateTexts, MaxPredicates) }
        \cup MalformedInputs

ParseInit ==
    /\ src \in InputPool
    /\ parsed = None
    /\ text = None
    /\ reparsed = None
    /\ lsrc = <<>>
    /\ lit = None
    /\ ssrc = <<>>
    /\ stree = None

ParseIdle ==
    /\ src = <<>>
    /\ parsed = None
    /\ text = None
    /\ reparsed = None
    /\ lsrc = <<>>
    /\ lit = None
    /\ ssrc = <<>>
    /\ stree = None

\* let query = parse(input)
Parse ==
    /\ parsed = None
    /\ parsed' = Some(parse(src))
    /\ UNCHANGED <<src, text, reparsed, lsrc, lit, ssrc, stree, notParseVars>>

\* let output = query.to_string()
QueryToString ==
    /\ IsSome(parsed)
    /\ Unwrap(parsed).st = "Ok"
    /\ text = None
    /\ text' = Some(Query_fmt(Unwrap(Unwrap(parsed).query)))
    /\ UNCHANGED <<src, parsed, reparsed, lsrc, lit, ssrc, stree, notParseVars>>

\* parse, applied to the text that to_string() produced
ParseText ==
    /\ IsSome(text)
    /\ reparsed = None
    /\ reparsed' = Some(parse(Unwrap(text)))
    /\ UNCHANGED <<src, parsed, text, lsrc, lit, ssrc, stree, notParseVars>>

ParseNext == Parse \/ QueryToString \/ ParseText

MaxLiteralLen == 3

LiteralAlphabet == {"'", "\"", "4", "a", " "}

\* The texts handed to parse_literal: all short ones, and some longer.
LiteralPool ==
    SeqsUpTo(LiteralAlphabet, MaxLiteralLen)
        \cup { <<>>,
               <<"4", "2", "a", "b", "c">>,                     \* 42abc
               <<" ", "0", "0", "7", " ", "x">>,                \*  007 x
               <<"'", "a", " ", "b", "'", " ", "c">>,           \* 'a b' c
               <<"i", "t", "'", "s", " ", "a">>,                \* it's a
               <<"\"", "a", "'", "b", "\"", "c", "\"">>,        \* "a'b"c"
               <<"\t", "a", "4", "\t", "4">>,                   \* <TAB>a4<TAB>4
               <<"1", "2", "'", "3", "'">> }                    \* 12'3'

LitInit ==
    /\ src = <<>>
    /\ parsed = None
    /\ text = None
    /\ reparsed = None
    /\ lsrc \in LiteralPool
    /\ lit = None
    /\ ssrc = <<>>
    /\ stree = None

\* let r = parse_literal(input)
ParseLiteral ==
    /\ lit = None
    /\ lit' = Some(parse_literal(lsrc))
    /\ UNCHANGED <<src, parsed, text, reparsed, lsrc, ssrc, stree, notParseVars>>

LitNext == ParseLiteral

----------------------------------------------------------------------------
(* syntax.rs: parse_object_tree.  Its parse_identifier and skip_whitespace *)
(* are those of query.rs, line for line.                                    *)

ObjectProjection(object) == [object |-> object, projection |-> None]

RECURSIVE parse_tree(_, _)

\* The '>' arm: the children were parsed into tree, and tree goes nowhere.
parse_tree_child(parent, r) ==
    IF ~IsOk(r) THEN Failed(r)
    ELSE Ok(r.rest, parent)

\* After the identifier of tree: the end of the input, '>', '+' or todo!().
parse_tree_next(parent, tree, input) ==
    IF input = <<>>
        THEN Ok(<<>>, ObjectTree(parent.root, Append(parent.children, tree)))
    ELSE IF input[1] = ">"
        THEN parse_tree_child(parent, parse_tree(tree, From(input, 1)))
    ELSE IF input[1] = "+"
        THEN parse_tree(ObjectTree(parent.root, Append(parent.children, tree)),
                        From(input, 1))
    ELSE Panic

parse_tree_identifier(parent, r) ==
    IF ~IsOk(r) THEN Failed(r)
    ELSE parse_tree_next(parent,
                         ObjectTree(ObjectProjection(Unwrap(r.val)), <<>>),
                         skip_whitespace(r.rest))

\* parse_tree(&mut parent, input): val is parent as the call leaves it.
parse_tree(parent, input) ==
    IF skip_whitespace(input) = <<>> THEN Ok(<<>>, parent)
    ELSE parse_tree_identifier(parent, parse_identifier(skip_whitespace(input)))

syntax_parse_object_tree_children(root_tree, input) ==
    IF input = <<>> \/ input[1] /= ">" THEN Ok(input, root_tree)
    ELSE parse_tree(root_tree, From(input, 1))

syntax_parse_object_tree_root(r) ==
    IF ~IsOk(r) THEN Failed(r)
    ELSE syntax_parse_object_tree_children(
             ObjectTree(ObjectProjection(Unwrap(r.val)), <<>>),
             skip_whitespace(r.rest))

\* parse_object_tree of syntax.rs
syntax_parse_object_tree(input) ==
    syntax_parse_object_tree_root(parse_identifier(skip_whitespace(input)))

MaxSyntaxLen == 4

SyntaxAlphabet == {"x", "y", ">", "+"}

\* The texts of the tests of syntax.rs, with one-letter identifiers, and all
\* short texts.
SyntaxPool ==
    SeqsUpTo(SyntaxAlphabet, MaxSyntaxLen)
        \cup { <<"X">>,
               <<"X", ">", "Y">>,
               <<"X", ">", "Y", "+", "Z">>,
               <<"X", ">", "Y", "+", "Z", ">", "W">>,
               <<"X", ">", "Y", ">", "Z">>,
               <<" ", "X", " ", ">", " ", "Y", " ", "+", " ", "Z">>,
               <<"X", ">", "Y", " ", "Z">> }

SynInit ==
    /\ src = <<>>
    /\ parsed = None
    /\ text = None
    /\ reparsed = None
    /\ lsrc = <<>>
    /\ lit = None
    /\ ssrc \in SyntaxPool
    /\ stree = None

\* let r = parse_object_tree(input)
SyntaxParseObjectTree ==
    /\ stree = None
    /\ stree' = Some(syntax_parse_object_tree(ssrc))
    /\ UNCHANGED <<src, parsed, text, reparsed, lsrc, lit, ssrc, notParseVars>>

SynNext == SyntaxParseObjectTree

----------------------------------------------------------------------------
(* arena.rs: PersistedArena.  An Id<T> is [index]; index counts from 0.     *)

Id(index) == [index |-> index]

\* PersistedArena::new
PersistedArena_new == <<>>

\* A bug of alloc: the index is read after the push.
alloc_after_push(objs, object) ==
    [objects |-> Append(objs, object), id |-> Id(Len(objs) + 1)]

\* alloc: [objects |-> the vector after the push, id |-> the Id returned].
alloc(objs, object) ==
    [objects |-> Append(objs, object), id |-> Id(Len(objs))]

\* get: Vec::get(id.index)
get(objs, id) ==
    IF id.index < Len(objs) THEN Some(objs[id.index + 1]) ELSE None

\* iter, collected: objects.iter().enumerate() mapped to (Id, object).
iter(objs) == [i \in 1..Len(objs) |-> <<Id(i - 1), objs[i]>>]

MaxAllocs == 4

ArenaValuePool == {"users", "privileges", "logs"}

OtherValuePool == {"orders"}

ArenaInit ==
    /\ arena_objects = PersistedArena_new
    /\ allocs = <<>>
    /\ got = None
    /\ iterated = None
    /\ other_objects = PersistedArena_new
    /\ other_allocs = <<>>

ArenaIdle ==
    /\ arena_objects = <<>>
    /\ allocs = <<>>
    /\ got = None
    /\ iterated = None
    /\ other_objects = <<>>
    /\ other_allocs = <<>>

\* let id = arena.alloc(object)
ArenaAlloc ==
    /\ Len(arena_objects) < MaxAllocs
    /\ \E object \in ArenaValuePool :
        \E r \in {alloc(arena_objects, object)} :
            /\ arena_objects' = r.objects
            /\ allocs' = Append(allocs, [id |-> r.id, object |-> object])
    /\ got' = None
    /\ iterated' = None
    /\ UNCHANGED <<other_objects, other_allocs, notArenaVars>>

\* arena.get(id), for an id the arena returned or one past its length
ArenaGet ==
    /\ \E index \in 0..MaxAllocs :
        got' = Some([id |-> Id(index), object |-> get(arena_objects, Id(index)),
                     issuer |-> IF \E k \in 1..Len(allocs) : allocs[k].id.index = index
                                    THEN "self"
                                ELSE "none"])
    /\ UNCHANGED <<arena_objects, allocs, iterated, other_objects, other_allocs,
                   notArenaVars>>

\* arena.iter().collect()
ArenaIter ==
    /\ iterated' = Some(iter(arena_objects))
    /\ UNCHANGED <<arena_objects, allocs, got, other_objects, other_allocs,
                   notArenaVars>>

\* let id = other.alloc(object), on a second arena of the same element type
OtherAlloc ==
    /\ Len(other_objects) < MaxAllocs
    /\ \E object \in OtherValuePool :
        \E r \in {alloc(other_objects, object)} :
            /\ other_objects' = r.objects
            /\ other_allocs' = Append(other_allocs, [id |-> r.id, object |-> object])
    /\ UNCHANGED <<arena_objects, allocs, got, iterated, notArenaVars>>

\* arena.get(id), for an id the second arena returned
ArenaGetForeign ==
    /\ \E k \in 1..Len(other_allocs) :
        got' = Some([id |-> other_allocs[k].id,
                     object |-> get(arena_objects, other_allocs[k].id),
                     issuer |-> "other"])
    /\ UNCHANGED <<arena_objects, allocs, iterated, other_objects, other_allocs,
                   notArenaVars>>

ArenaNext == ArenaAlloc \/ ArenaGet \/ ArenaIter \/ OtherAlloc \/ ArenaGetForeign

----------------------------------------------------------------------------
(* main.rs: Query::resolve_names *)

\* The query built from the resolved object tree, or the error of the tree.
Query_resolve_names_object(r) ==
    [query |-> IF IsSome(r.err) THEN None ELSE Some(Query(Unwrap(r.tree), <<>>)),
     tree |-> r.tree,
     err |-> r.err,
     scores |-> r.scores,
     log |-> r.log]

\* Query<String, String>::resolve_names(self, ctx)
Query_resolve_names(q, objs, scores, t) ==
    Query_resolve_names_object(resolve_names(q.object, objs, scores, t))

\* foo=bar baz>42, as parse gives them
PredicatesPool ==
    { <<>>,
      <<Predicate(<<"f", "o", "o">>, "Eq", Literal_String(<<"b", "a", "r">>)),
        Predicate(<<"b", "a", "z">>, "Gt", Literal_Integer(42))>> }

QueryPool ==
    { Query(tree, ps) :
        tree \in {ObjectTree(user, <<Leaf(priv)>>), Leaf(Fizz)}, ps \in PredicatesPool }

\* query.resolve_names(&schema)
QueryResolveNames ==
    /\ objects /= <<>>
    /\ nq < MaxQueries
    /\ \E q \in QueryPool :
        \E r \in {Query_resolve_names(q, objects, object_scores, now)} :
            /\ given' = Some(q)
            /\ resolved' = r.query
            /\ query' = Some(q.object)
            /\ result' = Some([tree |-> r.tree, err |-> r.err,
                                msg |-> IF IsSome(r.err)
                                            THEN Some(ResolutionError_fmt(Unwrap(r.err)))
                                        ELSE None])
            /\ object_scores' = r.scores
            /\ hitlog' = r.log
    /\ nq' = nq + 1
    /\ UNCHANGED <<objects, now, notResVars>>

ResNext == ResTick \/ ResolveNames \/ QueryResolveNames

----------------------------------------------------------------------------
(* schema.rs: resolve_object and resolve_object_tree.  find_best_match,     *)
(* normalize_case, Score and the recording of the hit are those of main.rs, *)
(* line for line; an Object of schema.rs has no foreign keys.               *)

\* resolve_object(ctx, name): the map holds every object of the schema.
resolve_object(objs, scores, t, name) ==
    record_best_match(
        find_best_match(create_id_keyword_map(iter_with_score(objs, scores)),
                        normalize_case(name)),
        name, scores, t)

\* A bug of the closure: the candidates are those of main.rs, the objects
\* with a foreign key to the parent.
resolve_object_tree_closure_foreign(ancestors, ident, objs, scores, t) ==
    resolve_node(objs, scores, t, ancestors, ident)

\* |_, ident| resolve_object(&ctx, &ident), or the ResolutionError
resolve_object_tree_closure(ancestors, ident, objs, scores, t) ==
    resolve_object(objs, scores, t, ident)

\* The walk of try_map_with_ancestors with the closure of
\* resolve_object_tree: [trees, err, scores].
RECURSIVE resolve_object_forest(_, _, _, _, _, _)

resolve_object_siblings(id, cs, rest) ==
    [trees |-> <<ObjectTree(id, cs.trees)>> \o rest.trees,
     err |-> rest.err,
     scores |-> rest.scores]

resolve_object_children(trees, k, ancestors, objs, t, id, cs) ==
    IF IsSome(cs.err) THEN [trees |-> <<>>, err |-> cs.err, scores |-> cs.scores]
    ELSE resolve_object_siblings(id, cs,
                                 resolve_object_forest(trees, k + 1, ancestors, objs,
                                                       cs.scores, t))

resolve_object_node(trees, k, ancestors, objs, scores, t, r) ==
    IF IsSome(r.err) THEN [trees |-> <<>>, err |-> r.err, scores |-> scores]
    ELSE resolve_object_children(trees, k, ancestors, objs, t, Unwrap(r.id),
                                 resolve_object_forest(trees[k].children, 1,
                                                       Append(ancestors, Unwrap(r.id)),
                                                       objs, r.scores, t))

resolve_object_forest(trees, k, ancestors, objs, scores, t) ==
    IF k > Len(trees) THEN [trees |-> <<>>, err |-> None, scores |-> scores]
    ELSE resolve_object_node(trees, k, ancestors, objs, scores, t,
                             resolve_object_tree_closure(ancestors, trees[k].root,
                                                         objs, scores, t))

resolve_object_tree_result(w) ==
    [tree |-> IF IsSome(w.err) THEN None ELSE Some(w.trees[1]),
     err |-> w.err,
     scores |-> w.scores]

\* resolve_object_tree(schema, tree)
resolve_object_tree(tree, objs, scores, t) ==
    resolve_object_tree_result(resolve_object_forest(<<tree>>, 1, <<>>, objs, scores, t))

\* The schemas of schema.rs: the two tables of test_resolve_object_tree, and
\* a third beside them.
SchemaRsPool == { SubSeq(SchemaOf({}), 1, 2), SchemaOf({}) }

SchemaRsInit ==
    /\ objects \in SchemaRsPool
    /\ object_scores = [i \in 1..Len(objects) |-> None]
    /\ now = 0
    /\ query = None
    /\ result = None
    /\ hitlog = <<>>
    /\ nq = 0
    /\ given = None
    /\ resolved = None

\* resolve_object_tree(&schema, query.object)
ResolveObjectTree ==
    /\ objects /= <<>>
    /\ nq < MaxQueries
    /\ \E tree \in TreePool :
        \E r \in {resolve_object_tree(tree, objects, object_scores, now)} :
            /\ query' = Some(tree)
            /\ result' = Some([tree |-> r.tree, err |-> r.err,
                                msg |-> IF IsSome(r.err)
                                            THEN Some(ResolutionError_fmt(Unwrap(r.err)))
                                        ELSE None])
            /\ object_scores' = r.scores
    /\ nq' = nq + 1
    /\ UNCHANGED <<objects, now, hitlog, given, resolved, notResVars>>

SchemaRsNext == ResTick \/ ResolveObjectTree

----------------------------------------------------------------------------
(* Specifications *)

InitAlg == AlgInit /\ ScoreIdle /\ ResIdle /\ ParseIdle /\ KwIdle /\ ArenaIdle

SpecAlg == InitAlg /\ [][AlgNext]_vars

InitScore == ScoreInit /\ AlgIdle /\ ResIdle /\ ParseIdle /\ KwIdle /\ ArenaIdle

SpecScore == InitScore /\ [][ScoreNext]_vars

InitResolve ==
    /\ ResInit /\ AlgIdle /\ ParseIdle /\ KwIdle /\ ArenaIdle
    /\ slot = None /\ hits = 0 /\ lasthit = None

SpecResolve == InitResolve /\ [][ResNext]_vars

InitSchemaRs ==
    /\ SchemaRsInit /\ AlgIdle /\ ParseIdle /\ KwIdle /\ ArenaIdle
    /\ slot = None /\ hits = 0 /\ lasthit = None

SpecSchemaRs == InitSchemaRs /\ [][SchemaRsNext]_vars

InitParse == ParseInit /\ AlgIdle /\ ScoreIdle /\ ResIdle /\ KwIdle /\ ArenaIdle

SpecParse == InitParse /\ [][ParseNext]_vars

InitLiteral == LitInit /\ AlgIdle /\ ScoreIdle /\ ResIdle /\ KwIdle /\ ArenaIdle

SpecLiteral == InitLiteral /\ [][LitNext]_vars

InitSyntax == SynInit /\ AlgIdle /\ ScoreIdle /\ ResIdle /\ KwIdle /\ ArenaIdle

SpecSyntax == InitSyntax /\ [][SynNext]_vars

InitKeywords == KwInit /\ AlgIdle /\ ScoreIdle /\ ResIdle /\ ParseIdle /\ ArenaIdle

SpecKeywords == InitKeywords /\ [][KwNext]_vars

InitArena == ArenaInit /\ AlgIdle /\ ScoreIdle /\ ResIdle /\ ParseIdle /\ KwIdle

SpecArena == InitArena /\ [][ArenaNext]_vars

InitAlgResolve == InitAlg \/ InitResolve

AlgResolveNext == FindBestMut \/ ResTick \/ ResolveNames \/ QueryResolveNames

SpecAlgResolve == InitAlgResolve /\ [][AlgResolveNext]_vars

----------------------------------------------------------------------------
(* Claims about find_best_mut *)

\* The classification of the claims: both sides lower-cased.
Lowered(i) == to_ascii_lowercase(items[i].name)

IsExact(i) == Lowered(i) = to_ascii_lowercase(pat)

IsPrefix(i) ==
    /\ ~IsExact(i)
    /\ \E n \in 1..Len(ascii_keywords(items[i].name)) :
           starts_with(to_ascii_lowercase(ascii_keywords(items[i].name)[n]),
                       to_ascii_lowercase(pat))

Matches(i) == IsExact(i) \/ IsPrefix(i)

SameClass(i, j) == Matches(i) /\ Matches(j) /\ (IsExact(i) <=> IsExact(j))

Scored(i) == IsSome(items[i].score)

ValueOf(i) == Unwrap(items[i].score).value

\* a >= b as numbers
F64Geq(a, b) == Scaled(a, MinExp(a, b)) >= Scaled(b, MinExp(a, b))

F64Eq(a, b) == Scaled(a, MinExp(a, b)) = Scaled(b, MinExp(a, b))

SameScore(i, j) ==
    \/ ~Scored(i) /\ ~Scored(j)
    \/ Scored(i) /\ Scored(j) /\ F64Eq(ValueOf(i), ValueOf(j))

Found == apc = "found"

Winner == Unwrap(best)

\* C1: whenever some candidate's name equals the pattern, the candidate
\* find_best_mut returns is one whose name equals the pattern, whatever the
\* scores of the candidates that only match by prefix.
C1_ExactBeatsPrefix ==
    (Found /\ \E i \in 1..Len(items) : IsExact(i)) => (IsSome(best) /\ IsExact(Winner))

\* C5: of two matching candidates with the same classification, one with a
\* score and one without, find_best_mut never returns the one without.
C5_ScoredBeforeUnscored ==
    Found =>
        \A i, j \in 1..Len(items) :
            (SameClass(i, j) /\ Scored(i) /\ ~Scored(j)) => best /= Some(j)

\* C6: when every candidate with the winner's classification carries a score,
\* the winner's value is the highest of theirs.
C6_HighestValueWins ==
    (Found /\ IsSome(best)
        /\ \A i \in 1..Len(items) : SameClass(i, Winner) => Scored(i))
    => \A i \in 1..Len(items) :
           SameClass(i, Winner) => F64Geq(ValueOf(Winner), ValueOf(i))

\* C6 witness: two prefix matches with different scores, the higher one returned.
C6_Witness ==
    /\ Found /\ IsSome(best)
    /\ \E i \in 1..Len(items) :
        /\ i /= Winner /\ SameClass(i, Winner) /\ ~IsExact(i)
        /\ Scored(i) /\ Scored(Winner)
        /\ ~F64Geq(ValueOf(i), ValueOf(Winner))
    /\ \A i \in 1..Len(items) : SameClass(i, Winner) => Scored(i)

\* C7: of the matching candidates that have the winner's classification and
\* the winner's score (equal values, or none), the winner is the one supplied
\* first.
C7_EarliestOfTiesWins ==
    (Found /\ IsSome(best)) =>
        \A i \in 1..Len(items) :
            (SameClass(i, Winner) /\ SameScore(i, Winner)) => Winner <= i

\* C7 witness: the winner has a tied companion supplied after it, with scores
\* and without.
C7_Witness ==
    /\ Found /\ IsSome(best)
    /\ \E i \in 1..Len(items) :
        i > Winner /\ SameClass(i, Winner) /\ SameScore(i, Winner) /\ Scored(i)

----------------------------------------------------------------------------
(* Claims about update_score *)

Hit == IsSome(lasthit)

Before == Unwrap(lasthit).before

HitAt == Unwrap(lasthit).at

Age == HitAt - Unwrap(Before).timestamp

\* new = old * k as f64 computes it, for an integer k >= 1
F64Times(new, old, k) ==
    IF ~is_finite(old) THEN ~is_finite(new)
    ELSE IF ~is_finite(new) THEN ~is_finite(F64(k * old.m, old.e))
    ELSE LET lo == MinExp(new, old)
         IN  Scaled(new, lo) = k * Scaled(old, lo)

\* C9: an update of an existing score sets the timestamp to the time of the
\* call and changes the value by exactly one factor chosen by the age: times 4
\* below an hour, times 2 from an hour to below a day, divided by 2 from a day
\* to below a week, divided by 4 from a week on.
C9_UpdateByAge ==
    (Hit /\ IsSome(Before)) =>
        /\ IsSome(slot)
        /\ Unwrap(slot).timestamp = HitAt
        /\ (Age < HOUR) => F64Times(Unwrap(slot).value, Unwrap(Before).value, 4)
        /\ (HOUR <= Age /\ Age < DAY) => F64Times(Unwrap(slot).value, Unwrap(Before).value, 2)
        /\ (DAY <= Age /\ Age < WEEK) => F64Times(Unwrap(Before).value, Unwrap(slot).value, 2)
        /\ (WEEK <= Age) => F64Times(Unwrap(Before).value, Unwrap(slot).value, 4)

\* C9 witness: an update exactly one week after the previous hit.
C9_Witness ==
    /\ Hit /\ IsSome(Before)
    /\ Age = WEEK
    /\ Unwrap(slot).value /= Unwrap(Before).value

\* C10: the first hit on an entity without a score leaves a score of value
\* exactly 4.0 whose timestamp is the time of the hit.
C10_FirstHitSeedsFour ==
    (Hit /\ ~IsSome(Before)) =>
        /\ IsSome(slot)
        /\ F64Eq(Unwrap(slot).value, F64(1, 2))
        /\ Unwrap(slot).timestamp = HitAt

\* C26: after any sequence of hit updates of an entity, whatever the times
\* between them, the value of its score is finite and not below zero, and
\* its timestamp is the time of the last hit.
C26_ScoreFiniteNonNegative ==
    Hit =>
        /\ IsSome(slot)
        /\ is_finite(Unwrap(slot).value)
        /\ Unwrap(slot).value.m >= 0
        /\ Unwrap(slot).timestamp = HitAt

----------------------------------------------------------------------------
(* Claims about the resolver of main.rs *)

Resolved == IsSome(result)

Front(p) == SubSeq(p, 1, Len(p) - 1)

Logged == { hitlog[k] : k \in 1..Len(hitlog) }

\* The id the walk bound to the node at path p.
BoundAt(p) == (CHOOSE e \in Logged : e.path = p).id

HasKeyTo(i, a) ==
    \E k \in 1..Len(objects[i].foreign_keys) :
        objects[i].foreign_keys[k].referenced_object = a

\* The resolved trees, each under the object bound to its parent: every root
\* has a foreign key to it.
RECURSIVE KeysToParents(_, _, _)
KeysToParents(trees, k, parent) ==
    \/ k > Len(trees)
    \/ /\ HasKeyTo(trees[k].root, parent)
       /\ KeysToParents(trees[k].children, 1, trees[k].root)
       /\ KeysToParents(trees, k + 1, parent)

\* C2: the object bound to a non-root node declares a foreign key whose
\* referenced_object is the object bound to the node's parent, in the nodes
\* the walk bound and in the tree it returned.
C2_ChildReferencesParent ==
    /\ \A e \in Logged : Len(e.path) > 1 => HasKeyTo(e.id, BoundAt(Front(e.path)))
    /\ (Resolved /\ IsSome(Unwrap(result).tree)) =>
           KeysToParents(Unwrap(Unwrap(result).tree).children, 1,
                         Unwrap(Unwrap(result).tree).root)

\* C2 witness: auth, which names users and privileges alike and names users
\* first, is bound below users to privileges, the object with the foreign key.
C2_Witness ==
    /\ Resolved
    /\ query = Some(ObjectTree(user, <<Leaf(auth)>>))
    /\ Unwrap(result).tree = Some(ObjectTree(1, <<ObjectTree(2, <<>>)>>))

\* The nodes of the trees from the k-th on in depth-first order: [path, name].
RECURSIVE Preorder(_, _, _)
Preorder(trees, k, path) ==
    IF k > Len(trees) THEN <<>>
    ELSE <<[path |-> Append(path, k), name |-> trees[k].root]>>
         \o Preorder(trees[k].children, 1, Append(path, k))
         \o Preorder(trees, k + 1, path)

\* The objects a node at path p may be bound to.
Universe(p) ==
    IF Len(p) = 1 THEN 1..Len(objects)
    ELSE { i \in 1..Len(objects) : HasKeyTo(i, BoundAt(Front(p))) }

\* Object i matches the name: equal to it, or with a keyword starting with it,
\* both lower-cased.
ObjectMatches(i, name) ==
    \/ to_ascii_lowercase(objects[i].name) = to_ascii_lowercase(name)
    \/ \E n \in 1..Len(ascii_keywords(objects[i].name)) :
           starts_with(to_ascii_lowercase(ascii_keywords(objects[i].name)[n]),
                       to_ascii_lowercase(name))

\* The walk bound the first nodes of the query in depth-first order, each to a
\* matching candidate, and stopped at the first node without one: the error is
\* that node's raw name and there is no tree.
StopsAtFirstUnmatched(pre, res) ==
    /\ Len(hitlog) <= Len(pre)
    /\ \A k \in 1..Len(hitlog) :
        /\ hitlog[k].path = pre[k].path
        /\ hitlog[k].name = pre[k].name
        /\ hitlog[k].id \in Universe(pre[k].path)
        /\ ObjectMatches(hitlog[k].id, pre[k].name)
    /\ IF Len(hitlog) < Len(pre)
           THEN /\ \A i \in Universe(pre[Len(hitlog) + 1].path) :
                       ~ObjectMatches(i, pre[Len(hitlog) + 1].name)
                /\ res.err = Some(pre[Len(hitlog) + 1].name)
                /\ Len(Unwrap(res.msg)) = Len(pre[Len(hitlog) + 1].name) + 21
                /\ SubSeq(Unwrap(res.msg), 21, Len(Unwrap(res.msg)) - 1)
                       = pre[Len(hitlog) + 1].name
                /\ res.tree = None
       ELSE res.err = None /\ IsSome(res.tree)

\* C3: resolve_names fails exactly at the first node, in depth-first order,
\* that has no matching candidate, with an error whose name is that node's raw
\* identifier and no tree; and find_best_mut returns None when no item matches.
C3_FirstUnmatchedNodeIsTheError ==
    /\ Resolved => StopsAtFirstUnmatched(Preorder(<<Unwrap(query)>>, 1, <<>>), Unwrap(result))
    /\ (Found /\ \A i \in 1..Len(items) : ~Matches(i)) => best = None

\* C3 witness: a query failed at its third node, after two nodes were bound.
C3_Witness ==
    /\ Resolved
    /\ Unwrap(result).err = Some(Fizz)
    /\ Len(hitlog) = 2

\* C8: a hit on an entity that already has a score multiplies its value by 4
\* when it comes less than an hour after the previous hit, and divides it by 4
\* when it comes more than a week after it.
C8_SecondHitByAge ==
    \A e \in Logged :
        IsSome(e.before) =>
            /\ (e.at - Unwrap(e.before).timestamp < HOUR) =>
                   F64Times(Unwrap(e.after).value, Unwrap(e.before).value, 4)
            /\ (e.at - Unwrap(e.before).timestamp > WEEK) =>
                   F64Times(Unwrap(e.before).value, Unwrap(e.after).value, 4)

\* The character in upper case.
Upcase(c) ==
    IF c \in LowerLetters THEN CHOOSE u \in UpperLetters : UpperToLower[u] = c ELSE c

\* The tree with every name in upper case (up) or in lower case.
RECURSIVE CaseTree(_, _)
CaseTree(tree, up) ==
    ObjectTree([i \in 1..Len(tree.root) |->
                   IF up THEN Upcase(tree.root[i])
                   ELSE to_ascii_lowercase_char(tree.root[i])],
               [k \in 1..Len(tree.children) |-> CaseTree(tree.children[k], up)])

\* C11: resolution does not depend on letter case: the tree a query resolves
\* to is the tree the same query resolves to with every token in lower case,
\* and with every token in upper case, from the same schema and scores.
C11_CaseInsensitive ==
    [][nq' = nq + 1 =>
          /\ resolve_names(CaseTree(Unwrap(query'), FALSE),
                           objects, object_scores, now).tree = Unwrap(result').tree
          /\ resolve_names(CaseTree(Unwrap(query'), TRUE),
                           objects, object_scores, now).tree = Unwrap(result').tree]_vars

\* C11 witness: the token UsEr was resolved to AUTH_USERS.
C11_Witness ==
    /\ Resolved
    /\ query = Some(Leaf(UsEr))
    /\ Unwrap(result).tree = Some(Leaf(1))

\* C14: the query that Query::resolve_names returns carries the predicates of
\* the query it was given: the same identifiers, operators and literal
\* values, in the same order.
C14_PredicatesKept ==
    IsSome(resolved) => Unwrap(resolved).predicates = Unwrap(given).predicates

\* The walk entries changed the table pre into post one node at a time: the
\* closure of a node was called with the table its predecessor left, it
\* changed the entry of the object it bound and no other, and the walk bound
\* the first nodes of the query in depth-first order.
OneUpdatePerNode(entries, pre, post, nodes) ==
    /\ Len(entries) <= Len(nodes)
    /\ \A k \in 1..Len(entries) :
        /\ entries[k].path = nodes[k].path
        /\ entries[k].seen = IF k = 1 THEN pre ELSE entries[k - 1].left
        /\ entries[k].left[entries[k].id] /= entries[k].seen[entries[k].id]
        /\ \A j \in DOMAIN pre : j /= entries[k].id => entries[k].left[j] = entries[k].seen[j]
    /\ post = IF entries = <<>> THEN pre ELSE entries[Len(entries)].left

\* C15: every resolve_names call ranks the candidates of a node on the score
\* table as the node before it left it, then changes the winner's entry and
\* nothing else; a successful call on a tree of n nodes applies n updates,
\* one per node in depth-first order.
C15_OneUpdatePerNode ==
    [][nq' = nq + 1 =>
          /\ OneUpdatePerNode(hitlog', object_scores, object_scores',
                              Preorder(<<Unwrap(query')>>, 1, <<>>))
          /\ IsSome(Unwrap(result').tree) =>
                 Len(hitlog') = Len(Preorder(<<Unwrap(query')>>, 1, <<>>))]_vars

\* C15 witness: a tree of three nodes was resolved and its last two nodes
\* were bound to the same object, already scored when it was ranked again.
C15_Witness ==
    /\ Resolved
    /\ IsSome(Unwrap(result).tree)
    /\ Len(hitlog) = 3
    /\ hitlog[3].id = hitlog[2].id
    /\ IsSome(hitlog[3].seen[hitlog[3].id])

----------------------------------------------------------------------------
(* Claims about the keywords and the classification of alg.rs *)

\* C12: a value named N is classified Exact for the pattern P exactly when
\* lower-cased N equals lower-cased P, Prefix when it is not Exact and a
\* keyword of N starts with P, both lower-cased, and is no match otherwise.
C12_Classification ==
    IsSome(kmatch) =>
        Unwrap(kmatch) =
            IF to_ascii_lowercase(kname) = to_ascii_lowercase(kpat) THEN Some("Exact")
            ELSE IF \E n \in 1..Len(ascii_keywords(kname)) :
                        starts_with(to_ascii_lowercase(ascii_keywords(kname)[n]),
                                    to_ascii_lowercase(kpat))
                THEN Some("Prefix")
            ELSE None

\* Letters with letters, digits with digits.
SameRun(c, d) ==
    \/ is_ascii_alphabetic(c) /\ is_ascii_alphabetic(d)
    \/ is_ascii_digit(c) /\ is_ascii_digit(d)

\* The position after the maximal run that starts at i.
RunEnd(s, i) ==
    CHOOSE j \in (i + 1)..(Len(s) + 1) :
        /\ \A k \in i..(j - 1) : SameRun(s[k], s[i])
        /\ j = Len(s) + 1 \/ ~SameRun(s[j], s[i])

\* The maximal runs of letters and of digits of s from position i on, in order.
RECURSIVE MaximalRuns(_, _)
MaximalRuns(s, i) ==
    IF i > Len(s) THEN <<>>
    ELSE IF ~is_ascii_alphanumeric(s[i]) THEN MaximalRuns(s, i + 1)
    ELSE <<SubSeq(s, i, RunEnd(s, i) - 1)>> \o MaximalRuns(s, RunEnd(s, i))

\* C13: once the iterator is exhausted, the keywords it has yielded are the
\* maximal runs of ASCII letters and of ASCII digits of the name, in order of
\* appearance, wherever the separators stand.
C13_KeywordsAreMaximalRuns ==
    kdone => kout = MaximalRuns(kname, 1)

----------------------------------------------------------------------------
(* Claims about the parser of query.rs *)

\* The texts the tests of query.rs hand to roundtrip.
RenderedForms ==
    { <<"a">>,
      <<"a", ">", "b">>,
      <<"a", ">", "b", "+", "c">>,
      <<"a", ">", "b", "+", "c", ">", "d">>,
      <<"a", ">", "b", " ", "f", "o", "o", "=", "b", "a", "r", " ",
        "b", "a", "z", ">", "4", "2">> }

\* C4: the text rendered from an accepted input is accepted and yields the
\* same object tree and the same predicates (identifier, operator, literal
\* kind and literal value) in the same order; for the inputs already in
\* rendered form the rendered text equals the input.
C4_RoundTrip ==
    /\ IsSome(reparsed) =>
           /\ Unwrap(reparsed).st = "Ok"
           /\ Unwrap(reparsed).query = Unwrap(parsed).query
    /\ (IsSome(text) /\ src \in RenderedForms) => Unwrap(text) = src

\* The first character of s that is not whitespace, if any.
FirstNonBlank(s) ==
    IF skip_whitespace(s) = <<>> THEN None ELSE Some(skip_whitespace(s)[1])

\* C16: parse returns SyntaxError and no query for an empty or blank input,
\* for an input whose first non-blank character is neither alphanumeric nor
\* an underscore, for a '>' or '+' that no identifier follows, for a
\* predicate without operator or without value and for a quoted literal
\* without its closing quote.
C16_MalformedIsSyntaxError ==
    (/\ IsSome(parsed)
     /\ \/ src \in MalformedInputs
        \/ ~IsSome(FirstNonBlank(src))
        \/ ~is_alphanumeric(Unwrap(FirstNonBlank(src))) /\ Unwrap(FirstNonBlank(src)) /= "_")
        => /\ Unwrap(parsed).st = "Err"
           /\ Unwrap(parsed).query = None

\* C16 witness: parse has answered for a text whose second predicate opens a
\* quote that is never closed.
C16_Witness ==
    /\ IsSome(parsed)
    /\ src = <<"a", " ", "f", "o", "o", "=", "b", "a", "r", " ", "x", "=", "'", "a", "b">>
    /\ Unwrap(parsed).st = "Err"

\* The String literals among the values of the predicates ps.
StringValues(ps) ==
    { ps[i].value.s : i \in { j \in 1..Len(ps) : ps[j].value.kind = "String" } }

\* C17: no literal that parse_literal returns is a zero-length token: the
\* empty quoted literals '' and "" are rejected with SyntaxError, so no
\* predicate of an accepted query has an empty String value.
C17_NoEmptyLiteral ==
    (IsSome(parsed) /\ Unwrap(parsed).st = "Ok")
        => <<>> \notin StringValues(Unwrap(Unwrap(parsed).query).predicates)

\* C18: whitespace between tokens does not change the result of parse: the
\* text made from an accepted text by putting whitespace before or after an
\* identifier, '>', '+', a predicate operator or a literal is accepted, with
\* the same object tree and the same predicates.
C18_WhitespaceInsignificant ==
    IsSome(parsed) =>
        \A p \in WhitespacePairs :
            p.spaced = src =>
                /\ Unwrap(parsed).st = "Ok"
                /\ Unwrap(parsed) = parse(p.base)

\* C18 witness: parse has accepted the text a>b foo=bar baz>42 with a tab and
\* a space put before, between and after all of its tokens.
C18_Witness ==
    /\ IsSome(parsed)
    /\ Unwrap(parsed).st = "Ok"
    /\ Len(Unwrap(Unwrap(parsed).query).predicates) = 2
    /\ Len(src) = 42
    /\ \E p \in WhitespacePairs : p.spaced = src /\ p.base /= src

\* The trees of the grammar object_tree := identifier ( '>' object_tree
\* ( '+' object_tree )* )? for the texts of the pool, written out by hand.
GrammarTrees ==
    { [text |-> <<"a">>,
       object |-> ObjectTree(<<"a">>, <<>>)],
      [text |-> <<"a", ">", "b">>,
       object |-> ObjectTree(<<"a">>, <<ObjectTree(<<"b">>, <<>>)>>)],
      [text |-> <<"a", ">", "b", "+", "c">>,
       object |-> ObjectTree(<<"a">>, <<ObjectTree(<<"b">>, <<>>),
                                        ObjectTree(<<"c">>, <<>>)>>)],
      [text |-> <<"a", ">", "b", "+", "c", ">", "d">>,
       object |-> ObjectTree(<<"a">>,
                             <<ObjectTree(<<"b">>, <<>>),
                               ObjectTree(<<"c">>, <<ObjectTree(<<"d">>, <<>>)>>)>>)],
      [text |-> <<"a", ">", "b", ">", "c", "+", "d">>,
       object |-> ObjectTree(<<"a">>,
                             <<ObjectTree(<<"b">>,
                                          <<ObjectTree(<<"c">>, <<>>),
                                            ObjectTree(<<"d">>, <<>>)>>)>>)],
      [text |-> <<" ", "a", " ", ">", " ", "b", " ", "+", "c">>,
       object |-> ObjectTree(<<"a">>, <<ObjectTree(<<"b">>, <<>>),
                                        ObjectTree(<<"c">>, <<>>)>>)],
      [text |-> <<"A", "_", "1", ">", "b", "2">>,
       object |-> ObjectTree(<<"A", "_", "1">>, <<ObjectTree(<<"b", "2">>, <<>>)>>)] }

\* The text s is the tree text t, alone or followed by a blank and the
\* identifier of a predicate.
HasTreeText(s, t) ==
    /\ starts_with(s, t)
    /\ Len(s) > Len(t) =>
           /\ s[Len(t) + 1] = " "
           /\ IsSome(FirstNonBlank(From(s, Len(t))))
           /\ \/ is_alphanumeric(Unwrap(FirstNonBlank(From(s, Len(t)))))
              \/ Unwrap(FirstNonBlank(From(s, Len(t)))) = "_"

\* C19: parse builds the tree of the grammar: '>' makes the object trees
\* after it children of the identifier before it, '+' adds a sibling, and a
\* child's own '>' chain is parsed before the sibling list of its parent
\* goes on; a>b+c>d is a with the children b, a leaf, and c, whose only child
\* is d.  A tree text alone is accepted, without predicates.
C19_GrammarTree ==
    IsSome(parsed) =>
        \A g \in GrammarTrees :
            /\ src = g.text =>
                   Unwrap(parsed) = [st |-> "Ok", query |-> Some(Query(g.object, <<>>))]
            /\ (HasTreeText(src, g.text) /\ Unwrap(parsed).st = "Ok") =>
                   Unwrap(Unwrap(parsed).query).object = g.object

\* C19 witness: parse has answered for a>b+c>d.
C19_Witness ==
    /\ IsSome(parsed)
    /\ src = <<"a", ">", "b", "+", "c", ">", "d">>
    /\ Unwrap(parsed).st = "Ok"
    /\ Len(Unwrap(Unwrap(parsed).query).object.children) = 2

----------------------------------------------------------------------------
(* Claims about the arena of arena.rs *)

\* The value given to the alloc that returned id, if an alloc returned it.
Allocated(id) ==
    IF \E k \in 1..Len(allocs) : allocs[k].id = id
        THEN Some(allocs[CHOOSE k \in 1..Len(allocs) : allocs[k].id = id].object)
    ELSE None

\* C20: after any sequence of allocs the k-th alloc, counted from 0, returned
\* the id of index k, the ids returned are pairwise distinct and increase in
\* the order of allocation, get(id) returns the value given to the alloc
\* that returned id whatever was allocated later, and iter yields every
\* (id, value) pair once, in the order of allocation.
C20_ArenaIds ==
    /\ \A k \in 1..Len(allocs) :
        /\ allocs[k].id = Id(k - 1)
        /\ get(arena_objects, allocs[k].id) = Some(allocs[k].object)
    /\ \A j, k \in 1..Len(allocs) :
        j < k => allocs[j].id.index < allocs[k].id.index
    /\ IsSome(got) => Unwrap(got).object = Allocated(Unwrap(got).id)
    /\ IsSome(iterated) =>
           Unwrap(iterated) = [k \in 1..Len(allocs) |-> <<allocs[k].id, allocs[k].object>>]

\* C20 witness: the same value was allocated first and third, with another
\* between them; get was asked for the first id and iter was collected.
C20_Witness ==
    /\ Len(allocs) = 3
    /\ allocs[1].object = allocs[3].object
    /\ allocs[2].object /= allocs[1].object
    /\ IsSome(got)
    /\ Unwrap(got).id = allocs[1].id
    /\ IsSome(iterated)

\* C21: get returns None for every id the arena did not issue: an id whose
\* index is past the length of the arena, and an id that another arena of
\* the same element type issued.
C21_UnknownIdNotFound ==
    (IsSome(got) /\ Unwrap(got).issuer /= "self") => Unwrap(got).object = None

----------------------------------------------------------------------------
(* Claims about parse_literal of query.rs *)

DigitSet == {"0", "1", "2", "3", "4", "5", "6", "7", "8", "9"}

\* The length of the longest prefix of a text whose characters are all of
\* one class; member[i] tells whether the i-th character is.
RunLength(member) ==
    CHOOSE n \in 0..Len(member) :
        /\ \A i \in 1..n : member[i]
        /\ n < Len(member) => ~member[n + 1]

DigitRun(s) == RunLength([i \in 1..Len(s) |-> s[i] \in DigitSet])

WordRun(s) == RunLength([i \in 1..Len(s) |-> s[i] \notin {" ", "\t", "\n"}])

\* The positions after the first at which the first character of s stands
\* again.
ClosingQuotes(s) == { j \in 2..Len(s) : s[j] = s[1] }

FirstClosingQuote(s) ==
    CHOOSE j \in ClosingQuotes(s) : \A k \in ClosingQuotes(s) : j <= k

\* What the three forms give for the text s, which starts with no blank:
\* the string between the quotes, the integer of the digit run, the bare
\* word up to the next whitespace.
QuotedForm(s) ==
    Ok(From(s, FirstClosingQuote(s)), Literal_String(SubSeq(s, 2, FirstClosingQuote(s) - 1)))

IntegerForm(s) ==
    Ok(From(s, DigitRun(s)),
       Literal_Integer(DecimalValue(StripZeros(To(s, DigitRun(s))),
                                    Len(StripZeros(To(s, DigitRun(s)))))))

WordForm(s) ==
    Ok(From(s, WordRun(s)), Literal_String(To(s, WordRun(s))))

ThreeForms(s) ==
    IF s[1] \in {"'", "\""}
        THEN (ClosingQuotes(s) /= {} => Unwrap(lit) = QuotedForm(s))
    ELSE IF s[1] \in DigitSet THEN Unwrap(lit) = IntegerForm(s)
    ELSE Unwrap(lit) = WordForm(s)

\* C22: parse_literal tries the three forms in a fixed order: a text starting
\* with a quote gives the string between it and the next identical quote;
\* otherwise a leading run of digits gives the integer of the whole run and
\* leaves the rest unread (42abc gives 42 with abc remaining); otherwise the
\* characters up to the next whitespace give a bare-word string.
C22_LiteralForms ==
    (IsSome(lit) /\ skip_whitespace(lsrc) /= <<>>) => ThreeForms(skip_whitespace(lsrc))

\* C22 witness: parse_literal has answered for 42abc.
C22_Witness ==
    /\ IsSome(lit)
    /\ lsrc = <<"4", "2", "a", "b", "c">>
    /\ Unwrap(lit) = Ok(<<"a", "b", "c">>, Literal_Integer(42))

----------------------------------------------------------------------------
(* Claims about what a resolution changes *)

\* The objects the walk with the log entries bound.
Winners(entries) == { entries[k].id : k \in 1..Len(entries) }

\* C23: a resolution, successful or failed, changes nothing of the schema
\* but the score table, and of the score table only the entries of the
\* objects it bound: the objects with their names and foreign keys and the
\* scores of all other objects are the same before and after.
C23_OnlyWinnersChange ==
    [][nq' = nq + 1 =>
          /\ objects' = objects
          /\ DOMAIN object_scores' = DOMAIN object_scores
          /\ \A id \in DOMAIN object_scores :
                 id \notin Winners(hitlog') => object_scores'[id] = object_scores[id]]_vars

\* C23 witness: a resolution failed after it had bound one node, and an
\* object it did not bind has a score.
C23_Witness ==
    /\ Resolved
    /\ IsSome(Unwrap(result).err)
    /\ Len(hitlog) = 1
    /\ \E id \in DOMAIN object_scores :
        id \notin Winners(hitlog) /\ IsSome(object_scores[id])

----------------------------------------------------------------------------
(* Claims about parse_object_tree of syntax.rs *)

\* The identifiers of the text s from its i-th character on, in order.
RECURSIVE IdentifiersFrom(_, _)
IdentifiersFrom(s, i) ==
    IF i > Len(s) THEN <<>>
    ELSE IF ~(is_alphanumeric(s[i]) \/ s[i] = "_") THEN IdentifiersFrom(s, i + 1)
    ELSE IF IsOk(parse_identifier(From(s, i - 1)))
        THEN <<Unwrap(parse_identifier(From(s, i - 1)).val)>>
                 \o IdentifiersFrom(s, Len(s) - Len(parse_identifier(From(s, i - 1)).rest) + 1)
    ELSE <<>>

\* The objects named by the nodes of the trees from the k-th on, parents
\* before children.
RECURSIVE NodeObjects(_, _)
NodeObjects(trees, k) ==
    IF k > Len(trees) THEN <<>>
    ELSE <<trees[k].root.object>>
             \o NodeObjects(trees[k].children, 1)
             \o NodeObjects(trees, k + 1)

SyntaxLeaf(object) == ObjectTree(ObjectProjection(<<object>>), <<>>)

\* C24: parse_object_tree of syntax.rs, given X>Y+Z>W, consumes the whole
\* input and returns the root X with the two children Y, a leaf, and Z, whose
\* only child is W; every identifier of an accepted input appears exactly
\* once in the tree returned.
C24_SyntaxTree ==
    IsSome(stree) =>
        /\ ssrc = <<"X", ">", "Y", "+", "Z", ">", "W">> =>
               Unwrap(stree) =
                   Ok(<<>>, ObjectTree(ObjectProjection(<<"X">>),
                                       <<SyntaxLeaf("Y"),
                                         ObjectTree(ObjectProjection(<<"Z">>),
                                                    <<SyntaxLeaf("W")>>)>>))
        /\ (IsOk(Unwrap(stree)) /\ Unwrap(stree).rest = <<>>) =>
               NodeObjects(Unwrap(stree).val, 1) = IdentifiersFrom(ssrc, 1)

----------------------------------------------------------------------------
(* Claims about the resolver of schema.rs *)

\* The roots of the trees from the k-th on, parents before children.
RECURSIVE Roots(_, _)
Roots(trees, k) ==
    IF k > Len(trees) THEN <<>>
    ELSE <<trees[k].root>> \o Roots(trees[k].children, 1) \o Roots(trees, k + 1)

\* The ids resolve_object gives for the names from the i-th on, one call
\* after the other on all objects, each on the scores the call before left.
RECURSIVE OneByOne(_, _, _, _, _)
OneByOneNext(names, i, objs, t, r) ==
    IF IsSome(r.err) THEN <<>>
    ELSE <<Unwrap(r.id)>> \o OneByOne(names, i + 1, objs, r.scores, t)

OneByOne(names, i, objs, scores, t) ==
    IF i > Len(names) THEN <<>>
    ELSE OneByOneNext(names, i, objs, t, resolve_object(objs, scores, t, names[i]))

\* C25: resolve_object_tree of schema.rs resolves every node, root or not,
\* against all objects of the schema: with auth_users and auth_privileges
\* and no foreign keys, user>priv resolves the root to auth_users and its
\* single child to auth_privileges.
C25_EveryNodeAgainstAllObjects ==
    [][nq' = nq + 1 =>
          /\ Unwrap(query') = ObjectTree(user, <<Leaf(priv)>>) =>
                 Unwrap(result').tree = Some(ObjectTree(1, <<Leaf(2)>>))
          /\ IsSome(Unwrap(result').tree) =>
                 Roots(<<Unwrap(Unwrap(result').tree)>>, 1)
                     = OneByOne(Roots(<<Unwrap(query')>>, 1), 1, objects, object_scores, now)]_vars

\* C25 witness: user>priv was resolved on the two tables of the test.
C25_Witness ==
    /\ Resolved
    /\ Len(objects) = 2
    /\ query = Some(ObjectTree(user, <<Leaf(priv)>>))
    /\ Unwrap(result).tree = Some(ObjectTree(1, <<Leaf(2)>>))

\* C27: parse returns a Query or a SyntaxError for every input and never
\* panics, also when the value of a predicate is a run of digits too large
\* for a 64-bit signed integer.
C27_ParseNeverPanics ==
    IsSome(parsed) =>
        /\ Unwrap(parsed).st \in {"Ok", "Err"}
        /\ Unwrap(parsed).st = "Ok" <=> IsSome(Unwrap(parsed).query)

\* In the trees from the k-th on, at every node, every child that a sibling
\* follows is a leaf.
RECURSIVE OnlyLastChildNests(_, _)
OnlyLastChildNests(trees, k) ==
    \/ k > Len(trees)
    \/ /\ \A i \in 1..(Len(trees[k].children) - 1) : trees[k].children[i].children = <<>>
       /\ OnlyLastChildNests(trees[k].children, 1)
       /\ OnlyLastChildNests(trees, k + 1)

\* C28: in every object tree that parse returns, at every node only the
\* last child can have children of its own.
C28_OnlyLastChildNests ==
    (IsSome(parsed) /\ Unwrap(parsed).st = "Ok") =>
        OnlyLastChildNests(<<Unwrap(Unwrap(parsed).query).object>>, 1)

\* C28 witness: parse has accepted a>b>c+d, and the only child of the root
\* has two children.
C28_Witness ==
    /\ IsSome(parsed)
    /\ src = <<"a", ">", "b", ">", "c", "+", "d">>
    /\ Unwrap(parsed).st = "Ok"
    /\ Len(Unwrap(Unwrap(parsed).query).object.children[1].children) = 2

----------------------------------------------------------------------------
(* Claims about two resolutions in a row *)

\* The single node of the query and the hit of its resolution, when the last
\* resolution was that of a single node and bound it.
SingleNodeBound ==
    /\ Resolved
    /\ Unwrap(query).children = <<>>
    /\ IsSome(Unwrap(result).tree)
    /\ Len(hitlog) = 1

\* C29: the winner of a token is stable under its own hit: when a single
\* token was resolved to an object and the hit of that object recorded, the
\* next resolution of the same token over the same objects, less than an hour
\* later and with no hit in between, binds the same object.
C29_WinnerStableUnderItsHit ==
    [][(/\ nq' = nq + 1
        /\ SingleNodeBound
        /\ query' = query
        /\ now - hitlog[1].at < HOUR) =>
           /\ Unwrap(result').tree = Unwrap(result).tree
           /\ Len(hitlog') = 1
           /\ hitlog'[1].id = hitlog[1].id]_vars

\* C29 witness: auth, which names two objects, was resolved to the object
\* whose only hit, the only hit of the table, came less than an hour before.
C29_Witness ==
    /\ SingleNodeBound
    /\ query = Some(Leaf(auth))
    /\ IsSome(hitlog[1].before)
    /\ hitlog[1].at - Unwrap(hitlog[1].before).timestamp < HOUR
    /\ hitlog[1].at > 0
    /\ Unwrap(hitlog[1].before).value = F64(1, 2)
    /\ \A i \in DOMAIN hitlog[1].seen : i /= hitlog[1].id => hitlog[1].seen[i] = None

\* The hits of the log entries up to the n-th, applied in order to the table
\* scores: each entry saw the table the entry before it left, and changed the
\* score of its object, and nothing else, to a score.
HitsKept(entries, scores, n) ==
    \A k \in 1..n :
        /\ entries[k].seen = IF k = 1 THEN scores ELSE entries[k - 1].left
        /\ IsSome(entries[k].after)
        /\ entries[k].after /= entries[k].before
        /\ entries[k].left = [entries[k].seen EXCEPT ![entries[k].id] = entries[k].after]

\* C30: when the resolution of a tree fails at a node, the hits of the nodes
\* before it in the depth-first walk stay in the score table as they were
\* applied, and no node after the failing one is ranked or hit: the hits are
\* those of the nodes before the failing one, in order, the table is the one
\* the last of them left, and the error names the failing node.
C30_FailureKeepsEarlierHits ==
    [][(nq' = nq + 1 /\ IsSome(Unwrap(result').err)) =>
           /\ Len(hitlog') < Len(Preorder(<<Unwrap(query')>>, 1, <<>>))
           /\ \A k \in 1..Len(hitlog') :
                  hitlog'[k].path = Preorder(<<Unwrap(query')>>, 1, <<>>)[k].path
           /\ Unwrap(result').err
                  = Some(Preorder(<<Unwrap(query')>>, 1, <<>>)[Len(hitlog') + 1].name)
           /\ HitsKept(hitlog', object_scores, Len(hitlog'))
           /\ object_scores' = IF hitlog' = <<>> THEN object_scores
                                ELSE hitlog'[Len(hitlog')].left]_vars

\* C30 witness: user>Fizz+log, the first query, failed at Fizz: the hit of
\* auth_users is in the table, and logs, which log would have been bound to,
\* has no score.
C30_Witness ==
    /\ Resolved
    /\ nq = 1
    /\ query = Some(ObjectTree(user, <<Leaf(Fizz), Leaf(log)>>))
    /\ Unwrap(result).err = Some(Fizz)
    /\ HasKeyTo(3, 1)
    /\ Len(hitlog) = 1
    /\ object_scores[1] = hitlog[1].after
    /\ IsSome(object_scores[1])
    /\ object_scores[3] = None

====
